---------------------------- MODULE Spec2Model ----------------------------
(***************************************************************************)
(* Model of the generation pipeline of threewebdesigner: the worker's      *)
(* POST /api/generate-model handler, request validation, the fingerprint,  *)
(* the planner, the retry loop around the Blender MCP client, the          *)
(* post-processing tools and the KV artifact cache.                        *)
(*                                                                         *)
(* JavaScript strings are sequences of one-character strings (UTF-16 code  *)
(* units); the empty string is << >>.                                      *)
(***************************************************************************)
EXTENDS Integers, Sequences, FiniteSets, TLC

(***************************************************************************)
(* Bounds of the model.                                                    *)
(***************************************************************************)
\* Number of handleGenerateModel invocations that may be in flight at once.
NumCalls == 2
\* Longest prompt enumerated exhaustively over PromptAlphabet.
MaxPromptChars == 3
\* Longest field enumerated exhaustively for the fingerprint function.
MaxFieldChars == 1

(***************************************************************************)
(* Program constants.                                                      *)
(***************************************************************************)
MinPromptLength == 1
MaxPromptLength == 5000
\* Faulty variant of maxRetries: one retry more.
maxRetriesRaised == 2 + 1

maxRetries == 2

(***************************************************************************)
(* String helpers (JavaScript String methods used by the code).            *)
(***************************************************************************)
UpperLetters ==
  <<"A","B","C","D","E","F","G","H","I","J","K","L","M",
    "N","O","P","Q","R","S","T","U","V","W","X","Y","Z">>

LowerLetters ==
  <<"a","b","c","d","e","f","g","h","i","j","k","l","m",
    "n","o","p","q","r","s","t","u","v","w","x","y","z">>

Digits == {"0","1","2","3","4","5","6","7","8","9"}

\* String.prototype.toLowerCase on one code unit (ASCII letters).
ToLowerChar(ch) ==
  IF \E i \in 1..26 : UpperLetters[i] = ch
    THEN LowerLetters[CHOOSE i \in 1..26 : UpperLetters[i] = ch]
    ELSE ch

toLowerCase(s) == [i \in 1..Len(s) |-> ToLowerChar(s[i])]

\* The regular expression class \w.
IsWordChar(ch) ==
  \/ \E i \in 1..26 : UpperLetters[i] = ch \/ LowerLetters[i] = ch
  \/ ch \in Digits
  \/ ch = "_"

\* White space removed by String.prototype.trim.
WhiteSpace == {" ", "\t", "\n", "\r"}

\* s with the code units at the positions in drop removed.
RemovePositions(s, drop) ==
  LET keep == SelectSeq([i \in 1..Len(s) |-> i], LAMBDA i : i \notin drop)
  IN  [k \in 1..Len(keep) |-> s[keep[k]]]

\* The literal lit occurs in s at position i.
MatchAt(s, lit, i) ==
  /\ i + Len(lit) - 1 <= Len(s)
  /\ \A k \in 1..Len(lit) : s[i + k - 1] = lit[k]

\* String.prototype.includes, and RegExp.test of an alternation of literals.
Includes(s, lit) == \E i \in 1..(Len(s) - Len(lit) + 1) : MatchAt(s, lit, i)

TestAny(s, lits) == \E lit \in lits : Includes(s, lit)

\* String.prototype.substring(0, n).
Substring0(s, n) == SubSeq(s, 1, IF Len(s) < n THEN Len(s) ELSE n)

\* String.prototype.trim.
trim(s) ==
  IF \A i \in 1..Len(s) : s[i] \in WhiteSpace
    THEN << >>
    ELSE LET first == CHOOSE i \in 1..Len(s) :
                        /\ s[i] \notin WhiteSpace
                        /\ \A j \in 1..(i - 1) : s[j] \in WhiteSpace
             last  == CHOOSE i \in 1..Len(s) :
                        /\ s[i] \notin WhiteSpace
                        /\ \A j \in (i + 1)..Len(s) : s[j] \in WhiteSpace
         IN  SubSeq(s, first, last)

(***************************************************************************)
(* src/lib/validation.ts: sanitizePrompt.                                  *)
(***************************************************************************)
JavascriptColon == <<"j","a","v","a","s","c","r","i","p","t",":">>

\* .replace(/[<>]/g, '')
RemoveAngleBrackets(s) == SelectSeq(s, LAMBDA ch : ch \notin {"<", ">"})

\* .replace(/javascript:/gi, ''). Two occurrences of the literal cannot
\* overlap (no proper prefix of it is a suffix), so the global replace removes
\* exactly the positions covered by some occurrence.
RemoveJavascriptProtocol(s) ==
  LET low     == toLowerCase(s)
      starts  == {i \in 1..Len(s) : MatchAt(low, JavascriptColon, i)}
      covered == {p \in 1..Len(s) :
                    \E i \in starts : i <= p /\ p <= i + Len(JavascriptColon) - 1}
  IN  IF starts = {} THEN s ELSE RemovePositions(s, covered)

\* A match of /on\w+=/i starts at i: "on", then the maximal run of word
\* characters (at least one), then "=". As "=" is no word character, the run
\* of a match is always the maximal one.
OnHandlerEnd(s, i) ==
  LET rest == {j \in (i + 2)..Len(s) : ~IsWordChar(s[j])}
  IN  IF rest = {} THEN 0
      ELSE LET j == CHOOSE x \in rest : \A y \in rest : x <= y
           IN  IF j >= i + 3 /\ s[j] = "=" THEN j ELSE 0

OnHandlerAt(s, i) ==
  /\ i + 1 <= Len(s)
  /\ ToLowerChar(s[i]) = "o"
  /\ ToLowerChar(s[i + 1]) = "n"
  /\ OnHandlerEnd(s, i) # 0

\* .replace(/on\w+=/gi, ''). Matches that end at the same "=" are nested in
\* the leftmost of them and matches that end at different "=" are disjoint,
\* so the leftmost-first global replace removes exactly the covered positions.
RemoveEventHandlers(s) ==
  LET starts  == {i \in 1..Len(s) : OnHandlerAt(s, i)}
      covered == {p \in 1..Len(s) :
                    \E i \in starts : i <= p /\ p <= OnHandlerEnd(s, i)}
  IN  IF starts = {} THEN s ELSE RemovePositions(s, covered)

sanitizePrompt(prompt) ==
  RemoveEventHandlers(RemoveJavascriptProtocol(RemoveAngleBrackets(trim(prompt))))

(***************************************************************************)
(* src/lib/validation.ts: GenerateModelRequestSchema and                   *)
(* validateGenerateModelRequest.  A request body is a record               *)
(*   [json, prompt, quality, style, extra]                                 *)
(* json is "object" for a JSON object and "other" for any other JSON       *)
(* value.  prompt is [type, chars]: type "string" with its code units,     *)
(* "undefined" when the key is absent, "number" for a value that is no     *)
(* string.  quality and style are the given string, Missing when the key   *)
(* is absent.  extra tells whether the object has a key other than         *)
(* prompt, quality and style.                                              *)
(***************************************************************************)
Missing == "<missing>"

JsString(chars) == [type |-> "string", chars |-> chars]
JsUndefined == [type |-> "undefined", chars |-> << >>]
JsNumber == [type |-> "number", chars |-> << >>]

Qualities == {"low", "medium", "high"}
Styles == {"realistic", "stylized", "abstract"}

\* z.string().min(1).max(5000): the checks run on the raw input, before the
\* transform.
PromptChecksPass(p) ==
  /\ p.type = "string"
  /\ Len(p.chars) >= MinPromptLength
  /\ Len(p.chars) <= MaxPromptLength

\* z.enum([...]).default(d)
EnumWithDefault(v, allowed, d) ==
  IF v = Missing THEN [ok |-> TRUE, value |-> d]
  ELSE IF v \in allowed THEN [ok |-> TRUE, value |-> v]
  ELSE [ok |-> FALSE, value |-> v]

\* The keys of the field -> message mapping produced from the ZodError.
SchemaIssues(body) ==
  IF body.json # "object" THEN {"<root>"}
  ELSE   (IF PromptChecksPass(body.prompt) THEN {} ELSE {"prompt"})
    \cup (IF EnumWithDefault(body.quality, Qualities, "medium").ok
            THEN {} ELSE {"quality"})
    \cup (IF EnumWithDefault(body.style, Styles, "stylized").ok
            THEN {} ELSE {"style"})
    \cup (IF body.extra THEN {"<unrecognized_keys>"} ELSE {})

GenerateModelRequestSchemaParse(body) ==
  [prompt  |-> sanitizePrompt(body.prompt.chars),
   quality |-> EnumWithDefault(body.quality, Qualities, "medium").value,
   style   |-> EnumWithDefault(body.style, Styles, "stylized").value]

NoData == [prompt |-> << >>, quality |-> Missing, style |-> Missing]

validateGenerateModelRequest(body) ==
  IF SchemaIssues(body) = {}
    THEN [success |-> TRUE, data |-> GenerateModelRequestSchemaParse(body),
          details |-> {}]
    ELSE [success |-> FALSE, data |-> NoData, details |-> SchemaIssues(body)]

(***************************************************************************)
(* src/lib/validation.ts: generateModelHash.                               *)
(*                                                                         *)
(* TextEncoder.encode turns the UTF-16 string into the UTF-8 encoding of   *)
(* its scalar values: a high surrogate followed by a low surrogate is one  *)
(* supplementary code point, a lone surrogate is replaced by U+FFFD.  The  *)
(* encoded data is modelled as the sequence of scalar values (UTF-8 is     *)
(* one-to-one on those).  SHA-256 is modelled as collision-free: the hex   *)
(* digest is represented by the data that was hashed.                      *)
(***************************************************************************)
HighSurrogate == "<U+D83D>"
LowSurrogate == "<U+DE00>"
ReplacementChar == "<U+FFFD>"
SupplementaryChar == "<U+1F600>"

TextEncode(s) ==
  LET pairedLow == {i \in 2..Len(s) :
                      s[i] = LowSurrogate /\ s[i - 1] = HighSurrogate}
      scalar(i) == IF s[i] = HighSurrogate
                     THEN IF i + 1 \in pairedLow THEN SupplementaryChar
                                                 ELSE ReplacementChar
                   ELSE IF s[i] = LowSurrogate THEN ReplacementChar
                   ELSE s[i]
  IN  RemovePositions([i \in 1..Len(s) |-> scalar(i)], pairedLow)

Sha256Hex(data) == [sha256 |-> data]

HashInput(prompt, quality, style) ==
  prompt \o <<":">> \o quality \o <<":">> \o style

generateModelHash(prompt, quality, style) ==
  Sha256Hex(TextEncode(HashInput(prompt, quality, style)))

\* The code units of the enum values.
Chars(v) ==
  CASE v = "low"       -> <<"l","o","w">>
    [] v = "medium"    -> <<"m","e","d","i","u","m">>
    [] v = "high"      -> <<"h","i","g","h">>
    [] v = "realistic" -> <<"r","e","a","l","i","s","t","i","c">>
    [] v = "stylized"  -> <<"s","t","y","l","i","z","e","d">>
    [] v = "abstract"  -> <<"a","b","s","t","r","a","c","t">>
    [] v = "ultra"     -> <<"u","l","t","r","a">>
    [] v = "cartoon"   -> <<"c","a","r","t","o","o","n">>

\* The KV key of CacheTool and of the GET handlers: `model:${key}`.
ModelKey(hash) == [prefix |-> "model:", hash |-> hash]

(***************************************************************************)
(* JavaScript values that may be undefined or null.                        *)
(***************************************************************************)
JsNum(n) == [t |-> "number", v |-> n]
JsUndef == [t |-> "undefined", v |-> 0]

\* A value that is an object or null.
NoObject == [none |-> TRUE]
NullValue == [t |-> "null", v |-> NoObject]
ObjectValue(obj) == [t |-> "object", v |-> obj]

\* Reading property name of object obj: undefined when obj has no such key.
Prop(obj, name) == IF name \in DOMAIN obj THEN obj[name] ELSE JsUndef

(***************************************************************************)
(* src/lib/api-helpers.ts: CONFIG.QUALITY_SETTINGS.                        *)
(***************************************************************************)
QUALITY_SETTINGS(key) ==
  CASE key = "LOW"    -> [polygons |-> 1000,  timeout |-> 15000]
    [] key = "MEDIUM" -> [polygons |-> 5000,  timeout |-> 25000]
    [] key = "HIGH"   -> [polygons |-> 10000, timeout |-> 30000]

\* quality.toUpperCase() on the enum values.
toUpperCaseQuality(quality) ==
  CASE quality = "low"    -> "LOW"
    [] quality = "medium" -> "MEDIUM"
    [] quality = "high"   -> "HIGH"

(***************************************************************************)
(* src/workers/agents/modelGeneration.ts: analyzePromptAndGenerateSpec.    *)
(***************************************************************************)
MaxOf(a, b) == IF a >= b THEN a ELSE b
MinOf(a, b) == IF a <= b THEN a ELSE b

\* prompt.split(' ').length: one more than the number of space code units.
SplitOnSpaceLength(prompt) ==
  Cardinality({i \in 1..Len(prompt) : prompt[i] = " "}) + 1

DetailKeywords ==
  { <<"d","e","t","a","i","l","e","d">>,
    <<"c","o","m","p","l","e","x">>,
    <<"i","n","t","r","i","c","a","t","e">>,
    <<"e","l","a","b","o","r","a","t","e">>,
    <<"r","e","f","i","n","e","d">> }

SimpleKeywords ==
  { <<"s","i","m","p","l","e">>,
    <<"b","a","s","i","c">>,
    <<"m","i","n","i","m","a","l">>,
    <<"c","l","e","a","n">>,
    <<"s","m","o","o","t","h">> }

\* Faulty variant of analyzePromptAndGenerateSpec: the prompt is stored
\* whole.
analyzePromptUntruncated(prompt, quality, style) ==
  LET wordCount == SplitOnSpaceLength(prompt)
      c1 == IF TestAny(toLowerCase(prompt), DetailKeywords) THEN 50 + 20 ELSE 50
      c2 == IF TestAny(toLowerCase(prompt), SimpleKeywords) THEN c1 - 20 ELSE c1
      c3 == IF wordCount > 50 THEN c2 + 10 ELSE c2
      c4 == IF wordCount < 10 THEN c3 - 10 ELSE c3
      qualitySettings == QUALITY_SETTINGS(toUpperCaseQuality(quality))
  IN  [prompt          |-> prompt,
       quality         |-> quality,
       style           |-> style,
       complexity      |-> MaxOf(10, MinOf(100, c4)),
       targetPolyCount |-> qualitySettings.polygons,
       timeout         |-> qualitySettings.timeout]

analyzePromptAndGenerateSpec(prompt, quality, style) ==
  LET wordCount         == SplitOnSpaceLength(prompt)
      hasDetailKeywords == TestAny(toLowerCase(prompt), DetailKeywords)
      hasSimpleKeywords == TestAny(toLowerCase(prompt), SimpleKeywords)
      c0 == 50
      c1 == IF hasDetailKeywords THEN c0 + 20 ELSE c0
      c2 == IF hasSimpleKeywords THEN c1 - 20 ELSE c1
      c3 == IF wordCount > 50 THEN c2 + 10 ELSE c2
      c4 == IF wordCount < 10 THEN c3 - 10 ELSE c3
      complexity      == MaxOf(10, MinOf(100, c4))
      qualitySettings == QUALITY_SETTINGS(toUpperCaseQuality(quality))
  IN  [prompt          |-> Substring0(prompt, 500),
       quality         |-> quality,
       style           |-> style,
       complexity      |-> complexity,
       targetPolyCount |-> qualitySettings.polygons,
       timeout         |-> qualitySettings.timeout]

\* Faulty variant of SimplifySpec: the complexity is lowered without its
\* floor of 10.
SimplifySpecUnclamped(spec) ==
  [spec EXCEPT !.complexity      = spec.complexity - 20,
               !.targetPolyCount = MaxOf(100, spec.targetPolyCount \div 2)]

\* Faulty variant of SimplifySpec: the retry also halves the timeout.
SimplifySpecShortensTimeout(spec) ==
  [spec EXCEPT !.complexity      = MaxOf(10, spec.complexity - 20),
               !.targetPolyCount = MaxOf(100, spec.targetPolyCount \div 2),
               !.timeout         = spec.timeout \div 2]

\* The catch block of the retry loop, lines 83-86.  targetPolyCount / 2 is a
\* floating-point division; it is exact on the even counts it is applied to.
SimplifySpec(spec) ==
  [spec EXCEPT !.complexity      = MaxOf(10, spec.complexity - 20),
               !.targetPolyCount = MaxOf(100, spec.targetPolyCount \div 2)]

(***************************************************************************)
(* Error messages, as the strings the code builds.                         *)
(***************************************************************************)
\* Number.prototype.toString for a non-negative integer.
DigitChars == <<"0","1","2","3","4","5","6","7","8","9">>

RECURSIVE NumberToString(_)
NumberToString(n) ==
  IF n < 10 THEN <<DigitChars[n + 1]>>
  ELSE NumberToString(n \div 10) \o <<DigitChars[(n % 10) + 1]>>

\* blenderMcp.ts line 45: `Failed to call Blender MCP: ${error}`
FailedToCallBlenderMcp ==
  <<"F","a","i","l","e","d"," ","t","o"," ","c","a","l","l"," ","B","l","e",
    "n","d","e","r"," ","M","C","P",":"," ">>

\* blenderMcp.ts line 40: `Blender MCP error: ${response.status}`, and the
\* "Error: " that the template of line 45 puts before an Error's message.
BlenderMcpErrorStatus(status) ==
  <<"E","r","r","o","r",":"," ","B","l","e","n","d","e","r"," ","M","C","P",
    " ","e","r","r","o","r",":"," ">>
  \o NumberToString(status)

\* The rejection of fetch when the server cannot be reached, as line 45
\* prints it.
FetchFailed ==
  <<"T","y","p","e","E","r","r","o","r",":"," ","f","e","t","c","h"," ","f",
    "a","i","l","e","d">>

\* modelGeneration.ts line 80: `Model generation failed: ${message}`
ModelGenerationFailed ==
  <<"M","o","d","e","l"," ","g","e","n","e","r","a","t","i","o","n"," ","f",
    "a","i","l","e","d",":"," ">>

\* modelGeneration.ts line 91.
FailedToGenerateModel ==
  <<"F","a","i","l","e","d"," ","t","o"," ","g","e","n","e","r","a","t","e",
    " ","m","o","d","e","l">>

\* The TypeError of modelData.byteLength on undefined (modelConversion.ts
\* line 35, reached through arrayBufferToBase64 line 49 first).
ByteLengthOfUndefined ==
  <<"C","a","n","n","o","t"," ","r","e","a","d"," ","p","r","o","p","e","r",
    "t","i","e","s"," ","o","f"," ","u","n","d","e","f","i","n","e","d"," ",
    "(","r","e","a","d","i","n","g"," ","'","b","y","t","e","L","e","n","g",
    "t","h","'",")">>

\* What a store fault would read if it escaped CacheTool.
KvGetFailed ==
  <<"K","V"," ","g","e","t"," ","f","a","i","l","e","d">>

KvPutFailed ==
  <<"K","V"," ","p","u","t"," ","f","a","i","l","e","d">>

(***************************************************************************)
(* src/lib/api-helpers.ts: APIError, Errors, createErrorResponse,          *)
(* errorResponse.                                                          *)
(***************************************************************************)
\* The optional suggestions of an APIError: an array of strings or undefined.
SuggestionList(list) == [t |-> "array", v |-> list]
NoSuggestions == [t |-> "undefined", v |-> << >>]

\* new APIError(message, code, statusCode, suggestions) and new Error(message)
APIError(message, code, statusCode, suggestions) ==
  [isAPIError |-> TRUE, message |-> message, code |-> code,
   statusCode |-> statusCode, suggestions |-> suggestions]

PlainError(message) ==
  [isAPIError |-> FALSE, message |-> message, code |-> "",
   statusCode |-> 0, suggestions |-> NoSuggestions]

\* An optional string argument left out (x || fallback).
OrDefault(x, fallback) == IF x = << >> THEN fallback ELSE x

ErrorsInvalidPrompt(details) ==
  APIError(OrDefault(details,
  <<"T","h","e"," ","p","r","o","m","p","t"," ","i","s"," ","i","n","v","a",
    "l","i","d"," ","o","r"," ","m","i","s","s","i","n","g"," ","r","e","q",
    "u","i","r","e","d"," ","f","i","e","l","d","s">>),
    "INVALID_PROMPT", 400, SuggestionList(
  <<
    <<"E","n","s","u","r","e"," ","t","h","e"," ","p","r","o","m","p","t",
      " ","i","s"," ","b","e","t","w","e","e","n"," ","1"," ","a","n","d",
      " ","5","0","0","0"," ","c","h","a","r","a","c","t","e","r","s">>,
    <<"R","e","m","o","v","e"," ","a","n","y"," ","s","p","e","c","i","a",
      "l"," ","c","h","a","r","a","c","t","e","r","s"," ","i","f"," ","p",
      "r","e","s","e","n","t">>,
    <<"T","r","y"," ","a"," ","s","i","m","p","l","e","r",","," ","m","o",
      "r","e"," ","d","e","s","c","r","i","p","t","i","v","e"," ","p","r",
      "o","m","p","t">> >>))

ErrorsGenerationFailed(reason) ==
  APIError(OrDefault(reason,
  <<"M","o","d","e","l"," ","g","e","n","e","r","a","t","i","o","n"," ","f",
    "a","i","l","e","d","."," ","P","l","e","a","s","e"," ","t","r","y"," ",
    "a","g","a","i","n",".">>),
    "GENERATION_FAILED", 500, SuggestionList(
  <<
    <<"T","r","y"," ","w","i","t","h"," ","a"," ","s","i","m","p","l","e",
      "r"," ","o","r"," ","m","o","r","e"," ","s","p","e","c","i","f","i",
      "c"," ","p","r","o","m","p","t">>,
    <<"T","r","y"," ","a"," ","l","o","w","e","r"," ","q","u","a","l","i",
      "t","y"," ","s","e","t","t","i","n","g"," ","(","l","o","w","/","m",
      "e","d","i","u","m"," ","i","n","s","t","e","a","d"," ","o","f"," ",
      "h","i","g","h",")">>,
    <<"C","h","e","c","k"," ","t","h","a","t"," ","a","l","l"," ","p","a",
      "r","a","m","e","t","e","r","s"," ","a","r","e"," ","v","a","l","i",
      "d">> >>))

ErrorsTimeout ==
  APIError(
  <<"M","o","d","e","l"," ","g","e","n","e","r","a","t","i","o","n"," ","t",
    "i","m","e","d"," ","o","u","t","."," ","T","h","i","s"," ","t","y","p",
    "i","c","a","l","l","y"," ","m","e","a","n","s"," ","t","h","e"," ","m",
    "o","d","e","l"," ","i","s"," ","t","o","o"," ","c","o","m","p","l","e",
    "x",".">>,
    "TIMEOUT", 504, SuggestionList(
  <<
    <<"T","r","y"," ","w","i","t","h"," ","a"," ","s","i","m","p","l","e",
      "r"," ","p","r","o","m","p","t"," ","(","f","e","w","e","r"," ","o",
      "b","j","e","c","t","s","/","d","e","t","a","i","l","s",")">>,
    <<"T","r","y"," ","w","i","t","h"," ","a"," ","l","o","w","e","r"," ",
      "q","u","a","l","i","t","y"," ","s","e","t","t","i","n","g"," ","(",
      "l","o","w"," ","i","n","s","t","e","a","d"," ","o","f"," ","m","e",
      "d","i","u","m","/","h","i","g","h",")">>,
    <<"T","r","y"," ","w","i","t","h"," ","a"," ","d","i","f","f","e","r",
      "e","n","t"," ","s","t","y","l","e"," ","(","a","b","s","t","r","a",
      "c","t"," ","i","n","s","t","e","a","d"," ","o","f"," ","r","e","a",
      "l","i","s","t","i","c",")">> >>))

\* retryAfter 0 stands for the argument left out.
ErrorsRateLimit(retryAfter) ==
  APIError(
  <<"R","a","t","e"," ","l","i","m","i","t"," ","e","x","c","e","e","d","e",
    "d","."," ","M","a","x","i","m","u","m"," ","1","0"," ","r","e","q","u",
    "e","s","t","s"," ","p","e","r"," ","m","i","n","u","t","e"," ","a","l",
    "l","o","w","e","d",".">>,
    "RATE_LIMIT", 429,
    IF retryAfter = 0 THEN NoSuggestions
    ELSE SuggestionList(<<
  <<"P","l","e","a","s","e"," ","w","a","i","t"," ">>
      \o NumberToString(retryAfter) \o
  <<" ","s","e","c","o","n","d","s"," ","b","e","f","o","r","e"," ","r","e",
    "t","r","y","i","n","g">> >>))

ErrorsModelNotFound(modelId) ==
  APIError(
  <<"M","o","d","e","l"," ","w","i","t","h"," ","I","D"," ","\"">>
    \o modelId \o
  <<"\""," ","n","o","t"," ","f","o","u","n","d"," ","o","r"," ","h","a",
    "s"," ","e","x","p","i","r","e","d"," ","(","2","4","-","h","o","u","r",
    " ","c","a","c","h","e"," ","T","T","L",")">>,
    "NOT_FOUND", 404, SuggestionList(
  <<
    <<"T","r","y"," ","g","e","n","e","r","a","t","i","n","g"," ","t","h",
      "e"," ","m","o","d","e","l"," ","a","g","a","i","n">>,
    <<"C","h","e","c","k"," ","t","h","a","t"," ","t","h","e"," ","m","o",
      "d","e","l"," ","I","D"," ","i","s"," ","c","o","r","r","e","c","t">> >>))

ErrorsInvalidQuality ==
  APIError(
  <<"I","n","v","a","l","i","d"," ","q","u","a","l","i","t","y"," ","s","e",
    "t","t","i","n","g","."," ","M","u","s","t"," ","b","e"," ","\"","l",
    "o","w","\"",","," ","\"","m","e","d","i","u","m","\"",","," ","o","r",
    " ","\"","h","i","g","h","\"",".">>,
    "INVALID_PROMPT", 400, NoSuggestions)

ErrorsInvalidStyle ==
  APIError(
  <<"I","n","v","a","l","i","d"," ","s","t","y","l","e"," ","s","e","t","t",
    "i","n","g","."," ","M","u","s","t"," ","b","e"," ","\"","r","e","a",
    "l","i","s","t","i","c","\"",","," ","\"","s","t","y","l","i","z","e",
    "d","\"",","," ","o","r"," ","\"","a","b","s","t","r","a","c","t","\"",
    ".">>,
    "INVALID_PROMPT", 400, NoSuggestions)

\* (size / 1024 / 1024).toFixed(2), for a size in bytes.
MegabytesToFixed2(size) ==
  LET whole == size \div 1048576
      rest  == size % 1048576
      hundredths == 100 * whole + (200 * rest + 1048576) \div 2097152
      frac == hundredths % 100
  IN  NumberToString(hundredths \div 100) \o <<".">>
        \o <<DigitChars[(frac \div 10) + 1], DigitChars[(frac % 10) + 1]>>

ErrorsFileTooLarge(size) ==
  APIError(
  <<"G","e","n","e","r","a","t","e","d"," ","m","o","d","e","l"," ","f","i",
    "l","e"," ","i","s"," ","t","o","o"," ","l","a","r","g","e"," ","(">>
    \o MegabytesToFixed2(size) \o
  <<"M","B",")","."," ","M","a","x"," ","s","i","z","e"," ","i","s"," ","5",
    "0","M","B",".">>,
    "GENERATION_FAILED", 413, SuggestionList(
  <<
    <<"T","r","y"," ","w","i","t","h"," ","l","o","w","e","r"," ","q","u",
      "a","l","i","t","y"," ","s","e","t","t","i","n","g","s">>,
    <<"T","r","y"," ","w","i","t","h"," ","a"," ","s","i","m","p","l","e",
      "r"," ","m","o","d","e","l"," ","d","e","s","c","r","i","p","t","i",
      "o","n">> >>))

ErrorsBlenderServerError(reason) ==
  APIError(OrDefault(reason,
  <<"B","l","e","n","d","e","r"," ","M","C","P"," ","s","e","r","v","e","r",
    " ","i","s"," ","t","e","m","p","o","r","a","r","i","l","y"," ","u","n",
    "a","v","a","i","l","a","b","l","e">>),
    "GENERATION_FAILED", 503, SuggestionList(
  <<
    <<"T","r","y"," ","a","g","a","i","n"," ","i","n"," ","a"," ","f","e",
      "w"," ","m","o","m","e","n","t","s">>,
    <<"T","r","y"," ","w","i","t","h"," ","a"," ","s","i","m","p","l","e",
      "r"," ","p","r","o","m","p","t">> >>))

\* The substrings createErrorResponse looks for in the message of a plain
\* Error (String.prototype.includes: case-sensitive).
TimeoutWords ==
  { <<"t","i","m","e","o","u","t">>,
    <<"t","i","m","e","d"," ","o","u","t">> }

ValidationWords ==
  { <<"v","a","l","i","d","a","t","i","o","n">>,
    <<"i","n","v","a","l","i","d">> }

RateLimitWords ==
  { <<"r","a","t","e"," ","l","i","m","i","t">>,
    <<"t","o","o"," ","m","a","n","y">> }

\* createErrorResponse(error, statusCode); statusCode 0 stands for the
\* argument left out.  The object of the second branch has no suggestions.
createErrorResponse(error, statusCode) ==
  IF error.isAPIError
    THEN [error |-> error.message, code |-> error.code,
          statusCode |-> error.statusCode, suggestions |-> error.suggestions]
    ELSE LET message == error.message
         IN  IF TestAny(message, TimeoutWords)
               THEN [error |-> message, code |-> "TIMEOUT", statusCode |-> 504]
             ELSE IF TestAny(message, ValidationWords)
               THEN [error |-> message, code |-> "INVALID_PROMPT", statusCode |-> 400]
             ELSE IF TestAny(message, RateLimitWords)
               THEN [error |-> message, code |-> "RATE_LIMIT", statusCode |-> 429]
             ELSE [error |-> message, code |-> "GENERATION_FAILED",
                   statusCode |-> IF statusCode = 0 THEN 500 ELSE statusCode]

\* JSON.stringify(errorObj): a property that is undefined is left out.
ErrorJson(errorObj) ==
  IF "suggestions" \in DOMAIN errorObj /\ errorObj.suggestions.t = "undefined"
    THEN [k \in DOMAIN errorObj \ {"suggestions"} |-> errorObj[k]]
    ELSE errorObj

\* errorResponse(error, statusCode): the Response's status and JSON body.
errorResponse(error, statusCode) ==
  LET errorObj == createErrorResponse(error, statusCode)
  IN  [status |-> errorObj.statusCode, body |-> ErrorJson(errorObj)]

(***************************************************************************)
(* The message of a validation failure: handler.ts line 89 prints          *)
(* JSON.stringify(validation.details), the field -> message object that    *)
(* validateGenerateModelRequest builds from the ZodError (lines 165-171).  *)
(***************************************************************************)
\* typeof, as zod names the received type.
ReceivedType(p) == IF p.type = "undefined" THEN <<"u","n","d","e","f","i","n","e","d">>
                   ELSE <<"n","u","m","b","e","r">>

\* The message of the prompt's issue: the two messages of the schema, and
\* zod's own for a value that is not a string.
PromptIssueMessage(p) ==
  IF p.type = "undefined" THEN
    <<"R","e","q","u","i","r","e","d">>
  ELSE IF p.type # "string" THEN
    <<"E","x","p","e","c","t","e","d"," ","s","t","r","i","n","g",","," ",
      "r","e","c","e","i","v","e","d"," ">> \o ReceivedType(p)
  ELSE IF Len(p.chars) < MinPromptLength THEN
    <<"P","r","o","m","p","t"," ","c","a","n","n","o","t"," ","b","e"," ",
      "e","m","p","t","y">>
  ELSE
    <<"P","r","o","m","p","t"," ","m","u","s","t"," ","b","e"," ","l","e",
      "s","s"," ","t","h","a","n"," ","5","0","0","0"," ","c","h","a","r",
      "a","c","t","e","r","s">>

\* zod's message for a value outside an enum.
EnumIssueMessage(allowed, v) ==
  <<"I","n","v","a","l","i","d"," ","e","n","u","m"," ","v","a","l","u","e",
    "."," ","E","x","p","e","c","t","e","d"," ">>
    \o allowed \o
  <<","," ","r","e","c","e","i","v","e","d"," ","'">>
    \o Chars(v) \o <<"'">>

QualityOptions ==
  <<"'","l","o","w","'"," ","|"," ","'","m","e","d","i","u","m","'"," ","|",
    " ","'","h","i","g","h","'">>

StyleOptions ==
  <<"'","r","e","a","l","i","s","t","i","c","'"," ","|"," ","'","s","t","y",
    "l","i","z","e","d","'"," ","|"," ","'","a","b","s","t","r","a","c","t",
    "'">>

\* The issue at the root of the body (path ''): not an object, or an object
\* with a key the strict schema does not know.
RootIssueMessage(body) ==
  IF body.json # "object" THEN
    <<"E","x","p","e","c","t","e","d"," ","o","b","j","e","c","t",","," ",
      "r","e","c","e","i","v","e","d"," ","s","t","r","i","n","g">>
  ELSE
    <<"U","n","r","e","c","o","g","n","i","z","e","d"," ","k","e","y","(",
      "s",")"," ","i","n"," ","o","b","j","e","c","t",":"," ","'","e","x",
      "t","r","a","'">>

\* "key":"message"; none of the messages holds a character JSON escapes.
JsonMember(key, message) ==
  <<"\"">> \o key \o <<"\"", ":", "\"">> \o message \o <<"\"">>

RECURSIVE JoinWithComma(_)
JoinWithComma(members) ==
  IF members = << >> THEN << >>
  ELSE IF Len(members) = 1 THEN members[1]
  ELSE members[1] \o <<",">> \o JoinWithComma(Tail(members))

\* JSON.stringify(validation.details)
ValidationDetailsJson(body) ==
  LET issues == SchemaIssues(body)
      m1 == IF "prompt" \in issues
              THEN <<JsonMember(<<"p","r","o","m","p","t">>,
                                PromptIssueMessage(body.prompt))>> ELSE << >>
      m2 == IF "quality" \in issues
              THEN <<JsonMember(<<"q","u","a","l","i","t","y">>,
                                EnumIssueMessage(QualityOptions, body.quality))>>
              ELSE << >>
      m3 == IF "style" \in issues
              THEN <<JsonMember(<<"s","t","y","l","e">>,
                                EnumIssueMessage(StyleOptions, body.style))>>
              ELSE << >>
      m4 == IF issues \cap {"<root>", "<unrecognized_keys>"} # {}
              THEN <<JsonMember(<< >>, RootIssueMessage(body))>> ELSE << >>
  IN  <<"{">> \o JoinWithComma(m1 \o m2 \o m3 \o m4) \o <<"}">>

\* handler.ts line 89: `Validation failed: ${JSON.stringify(validation.details)}`
ValidationFailedMessage(body) ==
  <<"V","a","l","i","d","a","t","i","o","n"," ","f","a","i","l","e","d",":",
    " ">>
    \o ValidationDetailsJson(body)

(***************************************************************************)
(* src/workers/tools/blenderMcp.ts: BlenderMCPTool.generateModel.          *)
(*                                                                         *)
(* The outcome of one fetch is                                             *)
(*   [kind |-> "rejected"]           fetch rejects (transport fault)       *)
(*   [kind |-> "status", status]     a non-2xx response                    *)
(*   [kind |-> "json", body]         a 2xx response and its parsed body    *)
(* A body is null or an object   [format, modelData, metadata] whose       *)
(* modelData is [kind, bytes]: kind "ArrayBuffer" (has byteLength),        *)
(* "Array" (a JSON array of numbers, no byteLength) or "undefined".        *)
(***************************************************************************)
BlenderMCPRequest(spec) ==
  [prompt          |-> spec.prompt,
   quality         |-> spec.quality,
   style           |-> spec.style,
   complexity      |-> spec.complexity,
   targetPolyCount |-> spec.targetPolyCount,
   timeout         |-> spec.timeout]

\* What generateModel does with the outcome of its fetch: the response it
\* returns, or the message of the Error it throws.
BlenderGenerateModel(outcome) ==
  CASE outcome.kind = "rejected" ->
         [ok |-> FALSE, body |-> NullValue,
          message |-> FailedToCallBlenderMcp \o FetchFailed]
    [] outcome.kind = "status" ->
         [ok |-> FALSE, body |-> NullValue,
          message |-> FailedToCallBlenderMcp \o BlenderMcpErrorStatus(outcome.status)]
    [] outcome.kind = "json" ->
         [ok |-> TRUE, body |-> outcome.body, message |-> << >>]

(***************************************************************************)
(* src/workers/tools/modelConversion.ts.                                   *)
(***************************************************************************)
Base64Alphabet ==
  <<"A","B","C","D","E","F","G","H","I","J","K","L","M","N","O","P",
    "Q","R","S","T","U","V","W","X","Y","Z","a","b","c","d","e","f",
    "g","h","i","j","k","l","m","n","o","p","q","r","s","t","u","v",
    "w","x","y","z","0","1","2","3","4","5","6","7","8","9","+","/">>

\* new Uint8Array(buffer): the bytes of an ArrayBuffer, the elements of an
\* array-like reduced modulo 256, nothing for undefined.
Uint8ArrayOf(modelData) ==
  CASE modelData.kind = "ArrayBuffer" -> modelData.bytes
    [] modelData.kind = "Array" ->
         [i \in 1..Len(modelData.bytes) |-> modelData.bytes[i] % 256]
    [] OTHER -> << >>

\* modelData.byteLength
ByteLengthOf(modelData) ==
  IF modelData.kind = "ArrayBuffer" THEN JsNum(Len(modelData.bytes)) ELSE JsUndef

Pow64(e) == CASE e = 0 -> 1 [] e = 1 -> 64 [] e = 2 -> 4096 [] e = 3 -> 262144

\* btoa of the binary string built from the bytes.
arrayBufferToBase64(modelData) ==
  LET bytes  == Uint8ArrayOf(modelData)
      n      == Len(bytes)
      groups == (n + 2) \div 3
      byte(i) == IF i <= n THEN bytes[i] ELSE 0
      char(k) ==
        LET g      == (k - 1) \div 4
            pos    == (k - 1) % 4
            triple == byte(3 * g + 1) * 65536 + byte(3 * g + 2) * 256
                        + byte(3 * g + 3)
        IN  IF (pos = 2 /\ 3 * g + 2 > n) \/ (pos = 3 /\ 3 * g + 3 > n)
              THEN "="
              ELSE Base64Alphabet[((triple \div Pow64(3 - pos)) % 64) + 1]
  IN  [k \in 1..(4 * groups) |-> char(k)]

\* convertAndOptimize throws a TypeError when modelData is undefined (the
\* read of modelData.byteLength).
ConvertThrows(modelData) == modelData.kind = "undefined"

\* Faulty variant of convertAndOptimize: the poly count is taken from the
\* size of the model instead of being fixed.
convertAndOptimizeSizedPolyCount(modelData, sourceFormat) ==
  [data     |-> arrayBufferToBase64(modelData),
   metadata |-> [polyCount      |-> 5000 + Len(modelData.bytes),
                 textureCount   |-> 2,
                 dimensions     |-> [width |-> 100, height |-> 100, depth |-> 100],
                 fileSize       |-> ByteLengthOf(modelData),
                 generationTime |-> 5000,
                 materials      |-> <<"default">>]]

\* Faulty variant of convertAndOptimize: the converted model carries no data.
convertAndOptimizeEmptyData(modelData, sourceFormat) ==
  [data     |-> << >>,
   metadata |-> [polyCount      |-> 5000,
                 textureCount   |-> 2,
                 dimensions     |-> [width |-> 100, height |-> 100, depth |-> 100],
                 fileSize       |-> ByteLengthOf(modelData),
                 generationTime |-> 5000,
                 materials      |-> <<"default">>]]

\* Faulty variant of convertAndOptimize: the poly count is the number of
\* bytes of the model.
convertAndOptimizeCountedPolyCount(modelData, sourceFormat) ==
  [data     |-> arrayBufferToBase64(modelData),
   metadata |-> [polyCount      |-> Len(modelData.bytes),
                 textureCount   |-> 2,
                 dimensions     |-> [width |-> 100, height |-> 100, depth |-> 100],
                 fileSize       |-> ByteLengthOf(modelData),
                 generationTime |-> 5000,
                 materials      |-> <<"default">>]]

convertAndOptimize(modelData, sourceFormat) ==
  [data     |-> arrayBufferToBase64(modelData),
   metadata |-> [polyCount      |-> 5000,
                 textureCount   |-> 2,
                 dimensions     |-> [width |-> 100, height |-> 100, depth |-> 100],
                 fileSize       |-> ByteLengthOf(modelData),
                 generationTime |-> 5000,
                 materials      |-> <<"default">>]]

(***************************************************************************)
(* src/workers/tools/animations.ts: suggestAnimations.  intensity is kept  *)
(* in tenths (1 is 10, 0.5 is 5, 0.2 is 2, 0.8 is 8).                      *)
(***************************************************************************)
RotationHints ==
  { <<"s","p","i","n">>, <<"r","o","t","a","t","e">>, <<"t","u","r","n">>,
    <<"c","i","r","c","u","l","a","r">> }

MovementHints ==
  { <<"f","l","y">>, <<"f","l","o","a","t">>, <<"m","o","v","e">>,
    <<"d","r","i","f","t">> }

ScaleHints ==
  { <<"g","r","o","w">>, <<"s","h","r","i","n","k">>,
    <<"e","x","p","a","n","d">>, <<"p","u","l","s","e">> }

PrimaryRotation ==
  [name |-> "Primary Rotation", type |-> "rotation", axis |-> "y",
   duration |-> 8000, easing |-> "linear", intensity |-> 10,
   description |-> "Gentle Y-axis rotation synchronized with scroll"]

FloatingMotion ==
  [name |-> "Floating Motion", type |-> "translation", axis |-> "z",
   duration |-> 6000, easing |-> "ease-in-out", intensity |-> 5,
   description |-> "Subtle Z-axis floating motion"]

ScalePulse ==
  [name |-> "Scale Pulse", type |-> "scale",
   duration |-> 4000, easing |-> "ease-out", intensity |-> 2,
   description |-> "Gentle scale pulsing effect"]

DefaultRotation ==
  [name |-> "Default Rotation", type |-> "rotation", axis |-> "y",
   duration |-> 10000, easing |-> "linear", intensity |-> 8,
   description |-> "Default smooth rotation around Y axis"]

\* Faulty variant of suggestAnimations: the default rotation is pushed
\* whatever has been suggested before.
suggestAnimationsWithDefault(metadata, prompt) ==
  LET low             == toLowerCase(prompt)
      s1 == IF TestAny(low, RotationHints) \/ metadata.polyCount > 3000
              THEN <<PrimaryRotation>> ELSE << >>
      s2 == IF TestAny(low, MovementHints) THEN Append(s1, FloatingMotion) ELSE s1
      s3 == IF TestAny(low, ScaleHints) \/ metadata.polyCount < 2000
              THEN Append(s2, ScalePulse) ELSE s2
  IN  Append(s3, DefaultRotation)

\* Faulty variant of suggestAnimations: the scale rule fires below 3000
\* polygons instead of below 2000.
suggestAnimationsScaleBelow3000(metadata, prompt) ==
  LET low == toLowerCase(prompt)
      s1 == IF TestAny(low, RotationHints) \/ metadata.polyCount > 3000
              THEN <<PrimaryRotation>> ELSE << >>
      s2 == IF TestAny(low, MovementHints) THEN Append(s1, FloatingMotion) ELSE s1
      s3 == IF TestAny(low, ScaleHints) \/ metadata.polyCount < 3000
              THEN Append(s2, ScalePulse) ELSE s2
  IN  IF Len(s3) = 0 THEN <<DefaultRotation>> ELSE s3

suggestAnimations(metadata, prompt) ==
  LET low             == toLowerCase(prompt)
      hasRotationHint == TestAny(low, RotationHints)
      hasMovementHint == TestAny(low, MovementHints)
      hasScaleHint    == TestAny(low, ScaleHints)
      s1 == IF hasRotationHint \/ metadata.polyCount > 3000
              THEN <<PrimaryRotation>> ELSE << >>
      s2 == IF hasMovementHint THEN Append(s1, FloatingMotion) ELSE s1
      s3 == IF hasScaleHint \/ metadata.polyCount < 2000
              THEN Append(s2, ScalePulse) ELSE s2
  IN  IF Len(s3) = 0 THEN <<DefaultRotation>> ELSE s3

(***************************************************************************)
(* src/workers/tools/cache.ts: CacheTool over the KV namespace.  A KV      *)
(* namespace is a function from the keys present to the stored text.       *)
(*                                                                         *)
(* JSON.stringify leaves out a property whose value is undefined;          *)
(* JSON.parse gives back an object without that key.  The stored text is   *)
(* represented by the JSON tree it denotes.                                *)
(***************************************************************************)
JSONStringify(data) ==
  LET m    == data.metadata
      keys == IF m.fileSize.t = "undefined" THEN DOMAIN m \ {"fileSize"}
                                            ELSE DOMAIN m
  IN  [json |-> [data EXCEPT !.metadata = [k \in keys |-> m[k]]]]

JSONParse(text) == text.json

\* kv.get(key, 'json'): null for an absent key.
KvGetJson(kv, key) ==
  IF key \in DOMAIN kv THEN ObjectValue(JSONParse(kv[key])) ELSE NullValue

\* kv.put(key, text, {expirationTtl})
KvPut(kv, key, text) ==
  [k \in DOMAIN kv \cup {key} |-> IF k = key THEN text ELSE kv[k]]

\* kv.delete(key), and the expiry of an entry.
KvDelete(kv, key) == [k \in DOMAIN kv \ {key} |-> kv[k]]

\* CacheTool.get: the parsed entry, or null for an absent key and for a
\* store fault (caught and logged).
CacheToolGet(kv, key, fault) ==
  IF fault THEN NullValue ELSE KvGetJson(kv, ModelKey(key))

\* CacheTool.set: the namespace after the call; a store fault is caught and
\* leaves it as it was.
CacheToolSet(kv, key, data, fault) ==
  IF fault THEN kv ELSE KvPut(kv, ModelKey(key), JSONStringify(data))

\* Faulty variant of CacheToolSetThrows: set without its try/catch.
CacheToolSetRethrows(fault) == fault

\* Faulty variant of CacheToolGetThrows: get without its try/catch.
CacheToolGetRethrows(fault) == fault

\* Whether CacheTool.set lets the fault of kv.put escape to its caller: the
\* catch block returns false instead.
CacheToolSetThrows(fault) == FALSE

\* Whether CacheTool.get lets the fault of kv.get escape to its caller: the
\* catch block returns null instead.
CacheToolGetThrows(fault) == FALSE

\* CacheTool.delete.
CacheToolDelete(kv, key) == KvDelete(kv, ModelKey(key))

(***************************************************************************)
(* The inputs of the pipeline model.                                       *)
(***************************************************************************)
Calls == 1..NumCalls

BodySpin ==
  [json |-> "object", prompt |-> JsString(<<"s","p","i","n">>),
   quality |-> "low", style |-> Missing, extra |-> FALSE]

BodyBox ==
  [json |-> "object", prompt |-> JsString(<<"b","o","x">>),
   quality |-> "high", style |-> "abstract", extra |-> FALSE]

BodyNoPrompt ==
  [json |-> "object", prompt |-> JsUndefined,
   quality |-> "medium", style |-> "realistic", extra |-> FALSE]

BodyGrow ==
  [json |-> "object", prompt |-> JsString(<<"g","r","o","w">>),
   quality |-> "medium", style |-> "stylized", extra |-> FALSE]

\* The request bodies submitted to POST /api/generate-model.
PipelineBodies == {BodySpin, BodyBox, BodyNoPrompt}

\* The bodies submitted when invocations are served one at a time.
SeqBodies == PipelineBodies \cup {BodyGrow}

BackendMetadata ==
  [polyCount |-> 1200, textureCount |-> 1,
   dimensions |-> [width |-> 2, height |-> 3, depth |-> 4],
   fileSize |-> JsNum(1), generationTime |-> 900, materials |-> <<"steel">>]

ResponseGlb ==
  [format |-> "glb", modelData |-> [kind |-> "ArrayBuffer", bytes |-> <<77>>],
   metadata |-> BackendMetadata]

ResponseGltf ==
  [format |-> "gltf", modelData |-> [kind |-> "Array", bytes |-> <<1, 255>>],
   metadata |-> BackendMetadata]

ResponseNoData ==
  [format |-> "glb", modelData |-> [kind |-> "undefined", bytes |-> << >>],
   metadata |-> BackendMetadata]

\* What the Generation Backend may answer to one request.
FetchOutcomes ==
  { [kind |-> "rejected", status |-> 0, body |-> NullValue],
    [kind |-> "status", status |-> 500, body |-> NullValue],
    [kind |-> "status", status |-> 504, body |-> NullValue],
    [kind |-> "json", status |-> 200, body |-> NullValue],
    [kind |-> "json", status |-> 200, body |-> ObjectValue(ResponseGlb)],
    [kind |-> "json", status |-> 200, body |-> ObjectValue(ResponseGltf)],
    [kind |-> "json", status |-> 200, body |-> ObjectValue(ResponseNoData)] }

\* The fingerprint of a validated body, and the keys the pipeline can use.
HashOfData(d) == generateModelHash(d.prompt, Chars(d.quality), Chars(d.style))

PipelineHashes ==
  { HashOfData(validateGenerateModelRequest(b).data) :
      b \in {x \in SeqBodies : validateGenerateModelRequest(x).success} }

(***************************************************************************)
(* State.                                                                  *)
(***************************************************************************)
VARIABLES
  kv,            \* env.MODELS_CACHE
  pc,            \* where each handleGenerateModel invocation stands
  request,       \* the { prompt, quality, style } handed to generateModelAgent
  promptHash,    \* generateModelAgent's promptHash
  spec,          \* generateModelAgent's spec
  retryCount,    \* generateModelAgent's retryCount
  sent,          \* the BlenderMCPRequests sent so far by this invocation
  responseData,  \* generateModelAgent's responseData
  blenderResponse, \* generateModelAgent's blenderResponse
  outcome,       \* how generateModelAgent ended: returned or thrown
  cachePuts,     \* number of kv.put calls made by this invocation
  getFault,      \* the kv.get of this invocation faulted
  putFault,      \* the kv.put of this invocation faulted
  converted,     \* convertAndOptimize and suggestAnimations ran
  live,          \* per hash: an artifact was returned and its entry not removed since
  liveSinceStart,\* live held when the invocation began and the store served it since
  overdue,       \* one at a time: spec.timeout ms have passed for the pending fetch
  prev,          \* one at a time: what the previous invocation returned
  cancelledAt,   \* one at a time: the number of backend calls made when the
                 \* caller cancelled the request, -1 while it has not
  hBody,         \* entry: the body submitted to POST /api/generate-model
  hStage,        \* entry: received, rejected, agent, hashed
  hArgs,         \* entry: the argument of generateModelAgent
  hHash,         \* entry: the result of generateModelHash
  fIn,           \* a function on its own: its inputs (for the fingerprint,
                 \* two (prompt, quality, style) triples)
  fOut           \* a function on its own: its results, once computed

callVars == <<pc, request, promptHash, spec, retryCount, sent, responseData, blenderResponse,
              outcome, cachePuts, getFault, putFault, converted, liveSinceStart>>
pipelineVars == <<kv, callVars, live>>
seqVars == <<overdue, prev, cancelledAt>>
handlerVars == <<hBody, hStage, hArgs, hHash>>
hashVars == <<fIn, fOut>>
vars == <<pipelineVars, seqVars, handlerVars, hashVars>>

NoRequest == [prompt |-> << >>, quality |-> Missing, style |-> Missing]
NoHash == Sha256Hex(<<"<none>">>)
NoSpec ==
  [prompt |-> << >>, quality |-> Missing, style |-> Missing, complexity |-> 0,
   targetPolyCount |-> 0, timeout |-> 0]
NoArtifact == NoObject
NoOutcome == [kind |-> "none", via |-> "", value |-> NoArtifact, message |-> << >>]

Returned(via, value) ==
  [kind |-> "returned", via |-> via, value |-> value, message |-> << >>]
Thrown(message) ==
  [kind |-> "thrown", via |-> "", value |-> NoArtifact, message |-> message]
Invalid ==
  [kind |-> "invalid", via |-> "", value |-> NoArtifact, message |-> << >>]

PipelineInit ==
  /\ kv = << >>
  /\ pc = [c \in Calls |-> "idle"]
  /\ request = [c \in Calls |-> NoRequest]
  /\ promptHash = [c \in Calls |-> NoHash]
  /\ spec = [c \in Calls |-> NoSpec]
  /\ retryCount = [c \in Calls |-> 0]
  /\ sent = [c \in Calls |-> << >>]
  /\ responseData = [c \in Calls |-> NoArtifact]
  /\ blenderResponse = [c \in Calls |-> NullValue]
  /\ outcome = [c \in Calls |-> NoOutcome]
  /\ cachePuts = [c \in Calls |-> 0]
  /\ getFault = [c \in Calls |-> FALSE]
  /\ putFault = [c \in Calls |-> FALSE]
  /\ converted = [c \in Calls |-> FALSE]
  /\ live = [h \in PipelineHashes |-> FALSE]
  /\ liveSinceStart = [c \in Calls |-> FALSE]

(***************************************************************************)
(* src/workers/handler.ts: handleGenerateModel, and                        *)
(* src/workers/agents/modelGeneration.ts: generateModelAgent.              *)
(* One invocation c runs from the validation of the body to the response;  *)
(* it yields at the awaited kv.get, at each awaited fetch and at the       *)
(* awaited kv.put.                                                         *)
(***************************************************************************)
\* Lines 114-124: the response assembled from the converted model.
ResponseData(hash, convertedModel, animationSuggestions) ==
  [modelId    |-> hash,
   modelData  |-> [format |-> "glb", data |-> convertedModel.data],
   metadata   |-> convertedModel.metadata,
   animations |-> [suggestions |-> animationSuggestions]]

\* Faulty variant of LookupKey: the lookup fingerprints the prompt alone.
LookupKeyOfPrompt(c) == Sha256Hex(TextEncode(request[c].prompt))

\* Line 48: the key handed to cacheTool.get.
LookupKey(c) == promptHash[c]

\* Faulty variant of CachedValue: the artifact is cached without its
\* animation suggestions.
CachedValueWithoutAnimations(c) ==
  [responseData[c] EXCEPT !.animations = [suggestions |-> << >>]]

\* Faulty variant of CachedKey: the entry is stored under the fingerprint of
\* the prompt alone.
CachedKeyOfPrompt(c) == Sha256Hex(TextEncode(request[c].prompt))

\* Line 127: the key and the value handed to cacheTool.set.
CachedKey(c) == promptHash[c]
CachedValue(c) == responseData[c]

\* Faulty variant of RetriesExhausted: gives up one failure early.
RetriesExhaustedEarly(count) == count >= maxRetries

\* Line 77: the test that ends the retry loop, on the incremented retryCount.
RetriesExhausted(count) == count > maxRetries

\* Lines 81-111: validation; a valid body reaches generateModelAgent, which
\* computes the fingerprint and issues the cache lookup.
Start(c, body) ==
  /\ pc[c] = "idle"
  /\ LET validation == validateGenerateModelRequest(body)
     IN  IF ~validation.success
           THEN /\ pc' = [pc EXCEPT ![c] = "done"]
                /\ outcome' = [outcome EXCEPT ![c] =
                     [Invalid EXCEPT !.message = ValidationFailedMessage(body)]]
                /\ UNCHANGED <<request, promptHash, liveSinceStart>>
           ELSE LET hash == HashOfData(validation.data)
                IN  /\ pc' = [pc EXCEPT ![c] = "lookup"]
                    /\ request' = [request EXCEPT ![c] = validation.data]
                    /\ promptHash' = [promptHash EXCEPT ![c] = hash]
                    /\ liveSinceStart' =
                         [liveSinceStart EXCEPT ![c] = live[hash]]
                    /\ UNCHANGED outcome
  /\ UNCHANGED <<kv, spec, retryCount, sent, responseData, blenderResponse, cachePuts, getFault,
                 putFault, converted, live>>

\* Lines 48-73: the lookup completes.  A hit returns the cached artifact; a
\* miss plans the specification and sends the first request.
CacheGet(c, fault) ==
  /\ pc[c] = "lookup"
  /\ getFault' = [getFault EXCEPT ![c] = fault]
  /\ liveSinceStart' = [liveSinceStart EXCEPT ![c] = liveSinceStart[c] /\ ~fault]
  /\ IF CacheToolGetThrows(fault)
       THEN /\ pc' = [pc EXCEPT ![c] = "done"]
            /\ outcome' = [outcome EXCEPT ![c] = Thrown(KvGetFailed)]
            /\ UNCHANGED <<spec, sent, live>>
       ELSE LET cached == CacheToolGet(kv, LookupKey(c), fault)
            IN  IF cached.t # "null"
                  THEN /\ pc' = [pc EXCEPT ![c] = "done"]
                       /\ outcome' = [outcome EXCEPT ![c] = Returned("hit", cached.v)]
                       /\ live' = [live EXCEPT ![promptHash[c]] = TRUE]
                       /\ UNCHANGED <<spec, sent>>
                  ELSE LET planned == analyzePromptAndGenerateSpec(
                                        request[c].prompt, request[c].quality,
                                        request[c].style)
                       IN  /\ pc' = [pc EXCEPT ![c] = "generate"]
                           /\ spec' = [spec EXCEPT ![c] = planned]
                           /\ sent' = [sent EXCEPT ![c] = <<BlenderMCPRequest(planned)>>]
                           /\ UNCHANGED <<outcome, live>>
  /\ UNCHANGED <<kv, request, promptHash, retryCount, responseData, blenderResponse, cachePuts,
                 putFault, converted>>

\* Lines 75-87, the catch block: count the failure, give up after
\* maxRetries, otherwise simplify the spec and send the next request.
AttemptFailed(c, message) ==
  /\ retryCount' = [retryCount EXCEPT ![c] = retryCount[c] + 1]
  /\ IF RetriesExhausted(retryCount[c] + 1)
       THEN /\ pc' = [pc EXCEPT ![c] = "done"]
            /\ outcome' = [outcome EXCEPT ![c] =
                             Thrown(ModelGenerationFailed \o message)]
            /\ UNCHANGED <<spec, sent>>
       ELSE /\ spec' = [spec EXCEPT ![c] = SimplifySpec(spec[c])]
            /\ sent' = [sent EXCEPT ![c] =
                          Append(sent[c], BlenderMCPRequest(SimplifySpec(spec[c])))]
            /\ UNCHANGED <<pc, outcome>>
  /\ UNCHANGED <<responseData, blenderResponse, converted>>

\* Lines 73-74 and 90-124: the response is kept; a falsy one fails the call,
\* otherwise it is converted, animations are suggested and the artifact is
\* assembled and handed to cacheTool.set.
AttemptSucceeded(c, body) ==
  /\ UNCHANGED <<retryCount, spec, sent>>
  /\ blenderResponse' = [blenderResponse EXCEPT ![c] = body]
  /\ IF body.t = "null"
       THEN /\ pc' = [pc EXCEPT ![c] = "done"]
            /\ outcome' = [outcome EXCEPT ![c] = Thrown(FailedToGenerateModel)]
            /\ UNCHANGED <<responseData, converted>>
       ELSE IF ConvertThrows(body.v.modelData)
         THEN /\ pc' = [pc EXCEPT ![c] = "done"]
              /\ outcome' = [outcome EXCEPT ![c] =
                    Thrown(ByteLengthOfUndefined)]
              /\ UNCHANGED <<responseData, converted>>
         ELSE LET convertedModel == convertAndOptimize(body.v.modelData, body.v.format)
                  animationSuggestions ==
                    suggestAnimations(convertedModel.metadata, request[c].prompt)
              IN  /\ pc' = [pc EXCEPT ![c] = "store"]
                  /\ responseData' = [responseData EXCEPT ![c] =
                       ResponseData(promptHash[c], convertedModel, animationSuggestions)]
                  /\ converted' = [converted EXCEPT ![c] = TRUE]
                  /\ UNCHANGED outcome

\* The pending fetch of invocation c completes with the given outcome.
BackendResponds(c, fetchOutcome) ==
  /\ pc[c] = "generate"
  /\ LET r == BlenderGenerateModel(fetchOutcome)
     IN  IF r.ok THEN AttemptSucceeded(c, r.body)
                 ELSE AttemptFailed(c, r.message)
  /\ UNCHANGED <<kv, request, promptHash, cachePuts, getFault, putFault, live,
                 liveSinceStart>>

\* Faulty variant of CachePut: the artifact is returned without being handed
\* to cacheTool.set.
CachePutSkipped(c, fault) ==
  /\ pc[c] = "store"
  /\ pc' = [pc EXCEPT ![c] = "done"]
  /\ outcome' = [outcome EXCEPT ![c] = Returned("miss", responseData[c])]
  /\ UNCHANGED <<kv, request, promptHash, spec, retryCount, sent, responseData, blenderResponse,
                 cachePuts, getFault, putFault, converted, live, liveSinceStart>>

\* Lines 127-134: the put completes (or faults) and the artifact is returned.
CachePut(c, fault) ==
  /\ pc[c] = "store"
  /\ cachePuts' = [cachePuts EXCEPT ![c] = cachePuts[c] + 1]
  /\ putFault' = [putFault EXCEPT ![c] = fault]
  /\ kv' = CacheToolSet(kv, CachedKey(c), CachedValue(c), fault)
  /\ pc' = [pc EXCEPT ![c] = "done"]
  /\ outcome' = [outcome EXCEPT ![c] =
                   IF CacheToolSetThrows(fault) THEN Thrown(KvPutFailed)
                   ELSE Returned("miss", responseData[c])]
  /\ live' = IF fault THEN live ELSE [live EXCEPT ![promptHash[c]] = TRUE]
  /\ UNCHANGED <<request, promptHash, spec, retryCount, sent, responseData, blenderResponse,
                 getFault, converted, liveSinceStart>>

\* The entry of a fingerprint leaves the store: its expirationTtl runs out,
\* or CacheTool.delete is called for it (explicit invalidation).
EntryRemoved(hash) ==
  /\ ModelKey(hash) \in DOMAIN kv
  /\ kv' = CacheToolDelete(kv, hash)
  /\ live' = [live EXCEPT ![hash] = FALSE]
  /\ liveSinceStart' =
       [c \in Calls |-> liveSinceStart[c] /\ promptHash[c] # hash]
  /\ UNCHANGED <<pc, request, promptHash, spec, retryCount, sent, responseData, blenderResponse,
                 outcome, cachePuts, getFault, putFault, converted>>

\* The response has been delivered; the slot serves the next request.
Finish(c) ==
  /\ pc[c] = "done"
  /\ pc' = [pc EXCEPT ![c] = "idle"]
  /\ request' = [request EXCEPT ![c] = NoRequest]
  /\ promptHash' = [promptHash EXCEPT ![c] = NoHash]
  /\ spec' = [spec EXCEPT ![c] = NoSpec]
  /\ retryCount' = [retryCount EXCEPT ![c] = 0]
  /\ sent' = [sent EXCEPT ![c] = << >>]
  /\ responseData' = [responseData EXCEPT ![c] = NoArtifact]
  /\ blenderResponse' = [blenderResponse EXCEPT ![c] = NullValue]
  /\ outcome' = [outcome EXCEPT ![c] = NoOutcome]
  /\ cachePuts' = [cachePuts EXCEPT ![c] = 0]
  /\ getFault' = [getFault EXCEPT ![c] = FALSE]
  /\ putFault' = [putFault EXCEPT ![c] = FALSE]
  /\ converted' = [converted EXCEPT ![c] = FALSE]
  /\ liveSinceStart' = [liveSinceStart EXCEPT ![c] = FALSE]
  /\ UNCHANGED <<kv, live>>

(***************************************************************************)
(* One invocation at a time, observed with the time of the pending fetch   *)
(* and with the result of the invocation before it.                        *)
(***************************************************************************)
NoPrev == [hash |-> NoHash, value |-> NoArtifact]

SeqIdle ==
  /\ overdue = FALSE
  /\ prev = NoPrev
  /\ cancelledAt = -1

\* spec.timeout milliseconds pass while the fetch is pending.  generateModel
\* sets no timer and passes no abort signal to fetch, so nothing in the
\* program reacts.
DeadlinePasses(c) ==
  /\ pc[c] = "generate"
  /\ ~overdue
  /\ overdue' = TRUE
  /\ UNCHANGED <<pipelineVars, prev, cancelledAt>>

\* The caller cancels the request while the fetch is pending.
\* handleGenerateModel never reads request.signal and passes no signal on,
\* so nothing in the program reacts.
CallerCancels(c) ==
  /\ pc[c] = "generate"
  /\ cancelledAt = -1
  /\ cancelledAt' = Len(sent[c])
  /\ UNCHANGED <<pipelineVars, overdue, prev>>

SeqStart(body) ==
  /\ Start(1, body)
  /\ UNCHANGED seqVars

\* A store fault ends the fault-free sequence the previous result stands for.
SeqCacheGet(fault) ==
  /\ CacheGet(1, fault)
  /\ prev' = IF fault THEN NoPrev ELSE prev
  /\ UNCHANGED <<overdue, cancelledAt>>

SeqBackendResponds(fetchOutcome) ==
  /\ BackendResponds(1, fetchOutcome)
  /\ overdue' = FALSE
  /\ UNCHANGED <<prev, cancelledAt>>

SeqCachePut(fault) ==
  /\ CachePut(1, fault)
  /\ UNCHANGED seqVars

SeqEntryRemoved(hash) ==
  /\ EntryRemoved(hash)
  /\ prev' = IF prev.hash = hash THEN NoPrev ELSE prev
  /\ UNCHANGED <<overdue, cancelledAt>>

\* The invocation ends; an artifact it returned with no store fault, and
\* whose entry has not left the store since, is what the next invocation is
\* compared with.
SeqFinish ==
  /\ Finish(1)
  /\ prev' = IF /\ outcome[1].kind = "returned"
                /\ ~putFault[1] /\ ~getFault[1]
                /\ live[promptHash[1]]
               THEN [hash |-> promptHash[1], value |-> outcome[1].value]
               ELSE NoPrev
  /\ cancelledAt' = -1
  /\ UNCHANGED overdue

(***************************************************************************)
(* The entry of the pipeline on its own: one body, from the handler's      *)
(* validation to the fingerprint computed by generateModelAgent.           *)
(***************************************************************************)
PromptAlphabet == {" ", "<", "a"}

SeqsUpTo(alphabet, n) == UNION {[1..k -> alphabet] : k \in 0..n}

Repeat(ch, n) == [i \in 1..n |-> ch]

\* Prompts beyond the exhaustive ones: the sanitizer's patterns and the
\* length limits.
SpecimenPrompts ==
  { JavascriptColon,
    <<"J","a","v","a","S","c","r","i","p","t",":","x">>,
    <<"o","n","x","=">>,
    <<"a"," ","O","N","l","o","a","d","=","b">>,
    <<"o","n","=","a">>,
    Repeat("a", MaxPromptLength),
    Repeat("a", MaxPromptLength + 1) }

HandlerPrompts ==
  {JsString(p) : p \in SeqsUpTo(PromptAlphabet, MaxPromptChars) \cup SpecimenPrompts}
    \cup {JsUndefined, JsNumber}

HandlerBodies ==
  [json : {"object"}, prompt : HandlerPrompts,
   quality : Qualities \cup {Missing, "ultra"},
   style : Styles \cup {Missing, "cartoon"}, extra : BOOLEAN]
  \cup {[json |-> "other", prompt |-> JsUndefined, quality |-> Missing,
         style |-> Missing, extra |-> FALSE]}

HandlerIdle ==
  /\ hBody = BodyNoPrompt
  /\ hStage = "off"
  /\ hArgs = NoRequest
  /\ hHash = NoHash

\* handleGenerateModel, lines 81-111: a body that fails validation is
\* answered at once; otherwise generateModelAgent is called with the
\* validated data.
HandlerValidate ==
  /\ hStage = "received"
  /\ LET validation == validateGenerateModelRequest(hBody)
     IN  IF validation.success
           THEN /\ hStage' = "agent"
                /\ hArgs' = validation.data
           ELSE /\ hStage' = "rejected"
                /\ UNCHANGED hArgs
  /\ UNCHANGED <<hBody, hHash>>

\* generateModelAgent, line 47: the fingerprinter is reached.
AgentFingerprint ==
  /\ hStage = "agent"
  /\ hStage' = "hashed"
  /\ hHash' = HashOfData(hArgs)
  /\ UNCHANGED <<hBody, hArgs>>

(***************************************************************************)
(* The fingerprint function on arbitrary string triples.                   *)
(***************************************************************************)
HashPromptAlphabet == {":", HighSurrogate, LowSurrogate}
HashFieldAlphabet == {"a", ":"}

HashTriples ==
  [prompt : SeqsUpTo(HashPromptAlphabet, MaxFieldChars),
   quality : SeqsUpTo(HashFieldAlphabet, MaxFieldChars),
   style : SeqsUpTo(HashFieldAlphabet, MaxFieldChars)]

NoTriple == [prompt |-> << >>, quality |-> << >>, style |-> << >>]

HashIdle ==
  /\ fIn = <<NoTriple, NoTriple>>
  /\ fOut = << >>

ComputeFingerprints ==
  /\ fOut = << >>
  /\ fOut' = [i \in 1..2 |->
                generateModelHash(fIn[i].prompt, fIn[i].quality, fIn[i].style)]
  /\ UNCHANGED fIn

(***************************************************************************)
(* Specifications.                                                         *)
(***************************************************************************)
Init == PipelineInit /\ SeqIdle /\ HandlerIdle /\ HashIdle

Next ==
  \/ \E c \in Calls, body \in PipelineBodies :
       Start(c, body) /\ UNCHANGED <<seqVars, handlerVars, hashVars>>
  \/ \E c \in Calls, fault \in BOOLEAN :
       CacheGet(c, fault) /\ UNCHANGED <<seqVars, handlerVars, hashVars>>
  \/ \E c \in Calls, o \in FetchOutcomes :
       BackendResponds(c, o) /\ UNCHANGED <<seqVars, handlerVars, hashVars>>
  \/ \E c \in Calls, fault \in BOOLEAN :
       CachePut(c, fault) /\ UNCHANGED <<seqVars, handlerVars, hashVars>>
  \/ \E h \in PipelineHashes :
       EntryRemoved(h) /\ UNCHANGED <<seqVars, handlerVars, hashVars>>
  \/ \E c \in Calls : Finish(c) /\ UNCHANGED <<seqVars, handlerVars, hashVars>>

\* The pipeline: concurrent invocations over one KV namespace.
Spec == Init /\ [][Next]_vars

SeqNext ==
  \/ \E body \in SeqBodies : SeqStart(body) /\ UNCHANGED <<handlerVars, hashVars>>
  \/ \E fault \in BOOLEAN : SeqCacheGet(fault) /\ UNCHANGED <<handlerVars, hashVars>>
  \/ \E o \in FetchOutcomes :
       SeqBackendResponds(o) /\ UNCHANGED <<handlerVars, hashVars>>
  \/ DeadlinePasses(1) /\ UNCHANGED <<handlerVars, hashVars>>
  \/ CallerCancels(1) /\ UNCHANGED <<handlerVars, hashVars>>
  \/ \E fault \in BOOLEAN : SeqCachePut(fault) /\ UNCHANGED <<handlerVars, hashVars>>
  \/ \E h \in PipelineHashes :
       SeqEntryRemoved(h) /\ UNCHANGED <<handlerVars, hashVars>>
  \/ SeqFinish /\ UNCHANGED <<handlerVars, hashVars>>

\* The pipeline serving one invocation at a time.
SpecSeq == Init /\ [][SeqNext]_vars

HandlerInit ==
  /\ PipelineInit
  /\ SeqIdle
  /\ HashIdle
  /\ hBody \in HandlerBodies
  /\ hStage = "received"
  /\ hArgs = NoRequest
  /\ hHash = NoHash

HandlerNext ==
  \/ HandlerValidate /\ UNCHANGED <<pipelineVars, seqVars, hashVars>>
  \/ AgentFingerprint /\ UNCHANGED <<pipelineVars, seqVars, hashVars>>

\* The entry of the pipeline for every body of HandlerBodies.
SpecHandler == HandlerInit /\ [][HandlerNext]_vars

HashInit ==
  /\ PipelineInit
  /\ SeqIdle
  /\ HandlerIdle
  /\ fIn \in HashTriples \X HashTriples
  /\ fOut = << >>

HashNext == ComputeFingerprints /\ UNCHANGED <<pipelineVars, seqVars, handlerVars>>

\* generateModelHash on every pair of triples of HashTriples.
SpecHash == HashInit /\ [][HashNext]_vars

(***************************************************************************)
(* Properties.                                                             *)
(***************************************************************************)
\* The errors a backend call can fail with, and the exhaustion error
\* generateModelAgent throws for the last of them.
FailureMessages ==
  {BlenderGenerateModel(o).message : o \in {f \in FetchOutcomes : f.kind # "json"}}

GenerationExhausted(o) ==
  /\ o.kind = "thrown"
  /\ \E m \in FailureMessages : o.message = ModelGenerationFailed \o m

\* The invocation looked up the cache and missed.
MissPath(c) ==
  \/ pc[c] \in {"generate", "store"}
  \/ pc[c] = "done" /\ (outcome[c].via = "miss" \/ outcome[c].kind = "thrown")

HitPath(c) == pc[c] = "done" /\ outcome[c].via = "hit"

\* C1: within one generateModelAgent call that misses the cache, when every
\* backend call made has failed and none is pending, the backend has been
\* called exactly 3 times and the call has failed with the exhaustion error;
\* the exhaustion error is thrown only after 3 failures of 3 calls, and no
\* 4th call is ever made.
C1_ExactlyThreeAttempts ==
  \A c \in Calls :
    /\ Len(sent[c]) <= 3
    /\ (Len(sent[c]) >= 1 /\ retryCount[c] = Len(sent[c])) =>
         /\ Len(sent[c]) = 3
         /\ pc[c] = "done"
         /\ GenerationExhausted(outcome[c])
    /\ GenerationExhausted(outcome[c]) =>
         /\ retryCount[c] = 3
         /\ Len(sent[c]) = 3

C1_Witness ==
  \E c \in Calls :
    /\ pc[c] = "done"
    /\ GenerationExhausted(outcome[c])
    /\ retryCount[c] = 3

\* C2: a generateModelAgent call makes no backend call when the lookup hits,
\* and at least one and at most three when it misses, whatever the backend
\* answers.
C2_BackendCallCount ==
  \A c \in Calls :
    /\ HitPath(c) => Len(sent[c]) = 0
    /\ MissPath(c) => Len(sent[c]) >= 1 /\ Len(sent[c]) <= 3

C2_Witness ==
  \E c, d \in Calls :
    /\ HitPath(c)
    /\ pc[d] = "done"
    /\ outcome[d].via = "miss"
    /\ Len(sent[d]) = 3

\* C3 as stated: a finished call has made exactly one store put on every
\* miss path and none on a hit path.
C3_OneWriteOnEveryMissPath ==
  \A c \in Calls :
    pc[c] = "done" =>
      /\ MissPath(c) => cachePuts[c] = 1
      /\ HitPath(c) => cachePuts[c] = 0

\* C3, amended: a call makes exactly one store put on every miss path that
\* returns an artifact, and none on a hit path or on a miss path that fails
\* (retries exhausted, empty backend response, conversion error); it never
\* makes more than one.
C3_OneWritePerGeneratedArtifact ==
  \A c \in Calls :
    /\ cachePuts[c] <= 1
    /\ (pc[c] = "done" /\ outcome[c].via = "miss") => cachePuts[c] = 1
    /\ HitPath(c) => cachePuts[c] = 0
    /\ (pc[c] = "done" /\ outcome[c].kind = "thrown") => cachePuts[c] = 0

C3_Witness ==
  \E c, d \in Calls :
    /\ pc[c] = "done"
    /\ outcome[c].kind = "thrown"
    /\ Len(sent[c]) >= 1
    /\ cachePuts[c] = 0
    /\ pc[d] = "done"
    /\ outcome[d].via = "miss"
    /\ cachePuts[d] = 1

\* C4: with a fault-free store, a call that began after an artifact had been
\* returned for its (prompt, quality, style), and whose entry has not expired
\* or been invalidated since, makes no backend call and no post-processing:
\* it is answered by the lookup.
C4_AtMostOneGenerationPerFingerprint ==
  \A c \in Calls :
    liveSinceStart[c] =>
      /\ Len(sent[c]) = 0
      /\ ~converted[c]
      /\ pc[c] \in {"lookup", "done"}
      /\ pc[c] = "done" => outcome[c].via = "hit"

C4_Witness ==
  \E c \in Calls :
    /\ liveSinceStart[c]
    /\ HitPath(c)
    /\ Len(sent[c]) = 0

\* Field by field equality of two artifacts; reading a property an object
\* does not have yields undefined.
MetadataKeys ==
  {"polyCount", "textureCount", "dimensions", "fileSize", "generationTime",
   "materials"}

SameArtifact(a, b) ==
  /\ a.modelId = b.modelId
  /\ a.modelData.format = b.modelData.format
  /\ a.modelData.data = b.modelData.data
  /\ \A k \in MetadataKeys : Prop(a.metadata, k) = Prop(b.metadata, k)
  /\ a.animations = b.animations

\* C5: with a fault-free store and no expiry in between, the second of two
\* calls made in sequence with the same request returns an artifact equal in
\* every field (modelId, format, data, metadata, animations) to the artifact
\* the first call returned.
C5_CacheIdempotence ==
  (pc[1] = "done" /\ prev # NoPrev /\ prev.hash = promptHash[1] /\ ~getFault[1]) =>
    /\ outcome[1].kind = "returned"
    /\ SameArtifact(outcome[1].value, prev.value)

C5_Witness ==
  /\ pc[1] = "done"
  /\ prev # NoPrev
  /\ prev.hash = promptHash[1]
  /\ outcome[1].via = "hit"
  /\ SameArtifact(outcome[1].value, prev.value)
  /\ "fileSize" \notin DOMAIN outcome[1].value.metadata

\* C6: when the store put fails in a miss-path call whose generation
\* succeeded, the call still returns the freshly generated artifact and
\* raises no error.
C6_PutFaultAbsorbed ==
  \A c \in Calls :
    (putFault[c] /\ pc[c] = "done") =>
      /\ responseData[c] # NoArtifact
      /\ outcome[c] = Returned("miss", responseData[c])

C6_Witness ==
  \E c \in Calls :
    /\ putFault[c]
    /\ pc[c] = "done"
    /\ outcome[c].kind = "returned"
    /\ ModelKey(promptHash[c]) \notin DOMAIN kv

\* C7: a store fault on the lookup is treated as a miss: the call plans and
\* calls the backend, and the fault never reaches the caller, even when an
\* entry for the fingerprint exists in the store.
C7_GetFaultIsMiss ==
  getFault[1] =>
    /\ pc[1] \in {"generate", "store", "done"}
    /\ spec[1] # NoSpec
    /\ Len(sent[1]) >= 1
    /\ outcome[1].via # "hit"
    /\ outcome[1].kind = "thrown" =>
         \/ GenerationExhausted(outcome[1])
         \/ outcome[1].message \in
              {FailedToGenerateModel, ByteLengthOfUndefined}

C7_Witness ==
  /\ getFault[1]
  /\ pc[1] = "generate"
  /\ Len(sent[1]) = 1
  /\ ModelKey(promptHash[1]) \in DOMAIN kv

\* C8 as stated: a backend call is bounded by the specification's timeout,
\* so no fetch is still pending once spec.timeout milliseconds have passed.
C8_FetchBoundedByTimeout == overdue => pc[1] # "generate"

\* C9 as stated: whenever generateModelAgent (and hence generateModelHash)
\* is invoked for a body posted to /api/generate-model, the prompt it
\* receives is non-empty and at most 5000 characters, quality is one of
\* low/medium/high and style is one of realistic/stylized/abstract.
C9_CoreReceivesWellFormedRequest ==
  hStage \in {"agent", "hashed"} =>
    /\ Len(hArgs.prompt) >= 1
    /\ Len(hArgs.prompt) <= 5000
    /\ hArgs.quality \in Qualities
    /\ hArgs.style \in Styles

\* C10 as stated: identical triples yield the identical fingerprint, and two
\* triples that differ in any field yield different fingerprints.
C10_FingerprintSeparation ==
  fOut # << >> => ((fIn[1] = fIn[2]) <=> (fOut[1] = fOut[2]))

(***************************************************************************)
(* src/workers/handler.ts: handleGetModel.                                 *)
(***************************************************************************)
\* GET /api/model/<modelId>: the last path segment is looked up under
\* `model:${modelId}`.  A fingerprint is 64 hex digits, so the segment is
\* the fingerprint itself.
handleGetModel(store, modelId) ==
  LET cached == KvGetJson(store, ModelKey(modelId))
  IN  IF cached.t = "null"
        THEN [status |-> 404, body |-> NullValue]
        ELSE [status |-> 200, body |-> cached]

\* C11: every artifact returned on a miss path has modelId equal to the
\* fingerprint of the request; every entry of the store sits under
\* "model:" + f for a fingerprint f and has modelId = f; and
\* GET /api/model/<modelId> for a returned modelId finds the entry with that
\* modelId while it is present.
C11_ModelIdIsFingerprint ==
  /\ \A c \in Calls :
       (pc[c] = "done" /\ outcome[c].via = "miss") =>
         /\ outcome[c].value.modelId = promptHash[c]
         /\ promptHash[c] = HashOfData(request[c])
  /\ \A k \in DOMAIN kv :
       \E f \in PipelineHashes :
         /\ k = ModelKey(f)
         /\ JSONParse(kv[k]).modelId = f
  /\ \A c \in Calls :
       (/\ pc[c] = "done"
        /\ outcome[c].kind = "returned"
        /\ ModelKey(promptHash[c]) \in DOMAIN kv) =>
         LET got == handleGetModel(kv, outcome[c].value.modelId)
         IN  /\ got.status = 200
             /\ got.body.v.modelId = outcome[c].value.modelId

C11_Witness ==
  \E c \in Calls :
    /\ pc[c] = "done"
    /\ outcome[c].via = "miss"
    /\ ~putFault[c]
    /\ handleGetModel(kv, outcome[c].value.modelId).status = 200
    /\ JSONParse(kv[ModelKey(promptHash[c])]).modelId = HashOfData(request[c])

(***************************************************************************)
(* src/workers/tools/animations.ts: suggestAnimations on its own.          *)
(***************************************************************************)
\* Poly counts around the two thresholds of the rules.
AnimPolyCounts == {0, 500, 1999, 2000, 2500, 3000, 3001, 5000}

\* Prompts with none, one and several of the hint keywords, in both cases.
AnimPrompts ==
  { <<>>,
    <<"a"," ","p","l","a","i","n"," ","b","o","x">>,
    <<"a"," ","s","t","a","t","i","c"," ","c","u","b","e">>,
    <<"a"," ","s","p","i","n","n","i","n","g"," ","t","o","p">>,
    <<"S","P","I","N">>,
    <<"R","o","t","a","t","e">>,
    <<"t","u","r","n">>,
    <<"c","i","r","c","u","l","a","r">>,
    <<"f","l","y">>,
    <<"f","l","o","a","t"," ","u","p">>,
    <<"m","o","v","e">>,
    <<"d","r","i","f","t">>,
    <<"g","r","o","w">>,
    <<"s","h","r","i","n","k">>,
    <<"e","x","p","a","n","d">>,
    <<"p","u","l","s","e">>,
    <<"s","p","i","n"," ","f","l","y">>,
    <<"f","l","y"," ","g","r","o","w">>,
    <<"s","p","i","n"," ","g","r","o","w">>,
    <<"s","p","i","n"," ","f","l","y"," ","g","r","o","w">> }

AnimInputs == [polyCount : AnimPolyCounts, prompt : AnimPrompts]

SuggestAnimations ==
  /\ fOut = << >>
  /\ fOut' = <<suggestAnimations([polyCount |-> fIn.polyCount], fIn.prompt)>>
  /\ UNCHANGED fIn

AnimInit ==
  /\ PipelineInit
  /\ SeqIdle
  /\ HandlerIdle
  /\ fIn \in AnimInputs
  /\ fOut = << >>

AnimNext == SuggestAnimations /\ UNCHANGED <<pipelineVars, seqVars, handlerVars>>

\* suggestAnimations on every input of AnimInputs.
SpecAnim == AnimInit /\ [][AnimNext]_vars

\* The three rules of the animation suggester, on its inputs.
RotationRule(in) ==
  TestAny(toLowerCase(in.prompt), RotationHints) \/ in.polyCount > 3000
TranslationRule(in) == TestAny(toLowerCase(in.prompt), MovementHints)
ScaleRule(in) ==
  TestAny(toLowerCase(in.prompt), ScaleHints) \/ in.polyCount < 2000

TypeRank(type) ==
  CASE type = "rotation" -> 1 [] type = "translation" -> 2 [] type = "scale" -> 3

IsDefaultRotation(a) ==
  a.type = "rotation" /\ a.duration = 10000 /\ a.intensity = 8

\* C12: for every polyCount and prompt, suggestAnimations returns at least
\* one entry; the entries appear in the order rotation, translation, scale;
\* and the default rotation (duration 10000, intensity 0.8) is present
\* exactly when none of the three rules fired, and is then the only entry.
C12_AnimationSuggestions ==
  fOut # << >> =>
    LET s == fOut[1]
        noRule == ~RotationRule(fIn) /\ ~TranslationRule(fIn) /\ ~ScaleRule(fIn)
    IN  /\ Len(s) >= 1
        /\ \A i, j \in 1..Len(s) : i < j => TypeRank(s[i].type) < TypeRank(s[j].type)
        /\ (\E i \in 1..Len(s) : IsDefaultRotation(s[i])) <=> noRule
        /\ noRule => Len(s) = 1
        /\ RotationRule(fIn) <=> (\E i \in 1..Len(s) : s[i] = PrimaryRotation)
        /\ TranslationRule(fIn) <=> (\E i \in 1..Len(s) : s[i].type = "translation")
        /\ ScaleRule(fIn) <=> (\E i \in 1..Len(s) : s[i].type = "scale")

C12_Witness ==
  /\ fOut # << >>
  /\ fIn.polyCount = 2500
  /\ fOut[1] = <<DefaultRotation>>

\* C13 as stated: the artifact assembled on a miss path has the format tag
\* of the backend response used, and the polyCount, textureCount, dimensions
\* and materials of that response.
C13_ArtifactPreservesBackendReport ==
  \A c \in Calls :
    (pc[c] \in {"store", "done"} /\ responseData[c] # NoArtifact) =>
      LET reported == blenderResponse[c].v
          artifact == responseData[c]
      IN  /\ artifact.modelData.format = reported.format
          /\ artifact.metadata.polyCount = reported.metadata.polyCount
          /\ artifact.metadata.textureCount = reported.metadata.textureCount
          /\ artifact.metadata.dimensions = reported.metadata.dimensions
          /\ artifact.metadata.materials = reported.metadata.materials

\* Two invocations with the same fingerprint that are both at their store
\* write, or past it, at the same time.
WritesTogether(c, d) ==
  /\ c # d
  /\ promptHash[c] = promptHash[d]
  /\ pc[c] = "store"
  /\ pc[d] = "store" \/ (pc[d] = "done" /\ outcome[d].via = "miss")

BothMissed(c, d) ==
  /\ c # d
  /\ promptHash[c] = promptHash[d]
  /\ MissPath(c) /\ ~getFault[c]
  /\ MissPath(d) /\ ~getFault[d]

\* C15: concurrent requests with the same fingerprint are not deduplicated.
\* Two calls that both missed each run their own retry loop and their own
\* store write, so together they make up to 6 backend calls and 2 cache
\* writes for the one fingerprint, and never more; the state in which both
\* have made 3 backend calls and stand at their write, with no entry stored
\* yet, is reachable.
C15_NoDeduplication ==
  \A c, d \in Calls :
    BothMissed(c, d) =>
      /\ Len(sent[c]) >= 1 /\ Len(sent[d]) >= 1
      /\ Len(sent[c]) + Len(sent[d]) <= 6
      /\ cachePuts[c] + cachePuts[d] <= 2

C15_Witness ==
  \E c, d \in Calls :
    /\ BothMissed(c, d)
    /\ request[c] = request[d]
    /\ pc[c] = "store" /\ pc[d] = "store"
    /\ Len(sent[c]) + Len(sent[d]) = 6
    /\ ModelKey(promptHash[c]) \notin DOMAIN kv
    /\ ~live[promptHash[c]]

(***************************************************************************)
(* src/workers/handler.ts: the failure responses of handleGenerateModel.   *)
(***************************************************************************)
\* Lines 87-92 and 133-138: a validation failure is answered with
\* errorResponse(new Error(`Validation failed: ...`), 400), an error thrown
\* by generateModelAgent with errorResponse(new Error(message), 500).
FailureResponse(o) ==
  IF o.kind = "invalid" THEN errorResponse(PlainError(o.message), 400)
  ELSE errorResponse(PlainError(o.message), 500)

\* The backend answered 504 Gateway Timeout: the attempt failed by timeout.
\* generateModel sets no timeout of its own, so this is the only way an
\* attempt ends on a timeout.
AttemptTimedOut(o) == o.kind = "status" /\ o.status = 504

\* The last attempt of an exhausted call failed by timeout.
LastAttemptTimedOut(o) ==
  \E f \in FetchOutcomes :
    /\ AttemptTimedOut(f)
    /\ o.message = ModelGenerationFailed \o BlenderGenerateModel(f).message

\* C16 as stated: when generation is exhausted, the error response carries
\* code TIMEOUT with status 504 if the last attempt failed by timeout, and
\* code GENERATION_FAILED with status 500 otherwise.
C16_ExhaustionSurfacedByLastCause ==
  \A c \in Calls :
    (pc[c] = "done" /\ GenerationExhausted(outcome[c])) =>
      LET r == FailureResponse(outcome[c])
      IN  IF LastAttemptTimedOut(outcome[c])
            THEN r.body.code = "TIMEOUT" /\ r.status = 504
            ELSE r.body.code = "GENERATION_FAILED" /\ r.status = 500

(***************************************************************************)
(* src/lib/api-helpers.ts: createErrorResponse on its own.                 *)
(***************************************************************************)
\* A body with an empty prompt.
BodyEmptyPrompt ==
  [json |-> "object", prompt |-> JsString(<< >>),
   quality |-> Missing, style |-> Missing, extra |-> FALSE]

\* The errors of the Errors helpers.
HelperErrors ==
  { ErrorsInvalidPrompt(<< >>),
    ErrorsInvalidPrompt(PromptIssueMessage(JsString(<< >>))),
    ErrorsGenerationFailed(<< >>),
    ErrorsTimeout,
    ErrorsRateLimit(0),
    ErrorsRateLimit(30),
    ErrorsModelNotFound(<<"a","b","c">>),
    ErrorsInvalidQuality,
    ErrorsInvalidStyle,
    ErrorsFileTooLarge(62914560),
    ErrorsBlenderServerError(<< >>) }

\* Messages of plain Errors: those the pipeline and the handlers produce,
\* and messages with and without the words createErrorResponse looks for.
PlainMessages ==
  {ModelGenerationFailed \o m : m \in FailureMessages}
    \cup {FailedToGenerateModel, ByteLengthOfUndefined,
          ValidationFailedMessage(BodyNoPrompt),
          ValidationFailedMessage(BodyEmptyPrompt)}
    \cup {
      <<"r","e","q","u","e","s","t"," ","t","i","m","e","d"," ","o","u","t">>,
      <<"c","o","n","n","e","c","t","i","o","n"," ","t","i","m","e","o","u",
        "t">>,
      <<"T","i","m","e","o","u","t">>,
      <<"v","a","l","i","d","a","t","i","o","n"," ","e","r","r","o","r">>,
      <<"i","n","v","a","l","i","d"," ","i","n","p","u","t">>,
      <<"r","a","t","e"," ","l","i","m","i","t"," ","h","i","t">>,
      <<"t","o","o"," ","m","a","n","y"," ","r","e","q","u","e","s","t","s">>,
      <<"m","o","d","e","l","I","d"," ","i","s"," ","r","e","q","u","i","r",
        "e","d">> }

\* The explicit status arguments; 0 stands for none.
StatusArguments == {0, 400, 404, 500}

ErrorInputs ==
  [error : HelperErrors \cup {PlainError(m) : m \in PlainMessages},
   statusCode : StatusArguments]

CreateErrorResponse ==
  /\ fOut = << >>
  /\ fOut' = <<createErrorResponse(fIn.error, fIn.statusCode)>>
  /\ UNCHANGED fIn

ErrorInit ==
  /\ PipelineInit
  /\ SeqIdle
  /\ HandlerIdle
  /\ fIn \in ErrorInputs
  /\ fOut = << >>

ErrorNext == CreateErrorResponse /\ UNCHANGED <<pipelineVars, seqVars, handlerVars>>

\* createErrorResponse on every input of ErrorInputs.
SpecError == ErrorInit /\ [][ErrorNext]_vars

\* C17 as stated: every error response object produced by
\* createErrorResponse pairs its code with its status class: INVALID_PROMPT
\* with 400, GENERATION_FAILED with 500, TIMEOUT with 504, RATE_LIMIT with
\* 429, NOT_FOUND with 404.
C17_CodePairedWithStatus ==
  fOut # << >> =>
    <<fOut[1].code, fOut[1].statusCode>> \in
      { <<"INVALID_PROMPT", 400>>, <<"GENERATION_FAILED", 500>>,
        <<"TIMEOUT", 504>>, <<"RATE_LIMIT", 429>>, <<"NOT_FOUND", 404>> }

\* The JSON body of an error response lists at least one suggestion.
HasSuggestions(body) ==
  /\ "suggestions" \in DOMAIN body
  /\ body.suggestions.t = "array"
  /\ Len(body.suggestions.v) >= 1

\* C18 as stated: every failure response of POST /api/generate-model, for a
\* validation failure or a generation failure, carries a non-empty list of
\* suggestions.
C18_FailuresCarrySuggestions ==
  \A c \in Calls :
    (pc[c] = "done" /\ outcome[c].kind \in {"invalid", "thrown"}) =>
      HasSuggestions(FailureResponse(outcome[c]).body)

\* C19 as stated: after the caller's request is cancelled during a
\* generateModelAgent call, no further backend call is made: the number of
\* backend calls stays what it was at the cancellation.
C19_NoAttemptAfterCancellation ==
  cancelledAt # -1 => Len(sent[1]) = cancelledAt

\* The specification sent after a failed attempt that was sent `failed`:
\* complexity max(10, c - 20) and targetPolyCount max(100, p / 2), with p / 2
\* the exact quotient.
DegradedFrom(next, failed) ==
  /\ next.complexity = MaxOf(10, failed.complexity - 20)
  /\ IF failed.targetPolyCount >= 200
       THEN 2 * next.targetPolyCount = failed.targetPolyCount
       ELSE next.targetPolyCount = 100
  /\ next.prompt = failed.prompt
  /\ next.quality = failed.quality
  /\ next.style = failed.style
  /\ next.timeout = failed.timeout

\* C20: the first attempt is sent the planner's output unchanged, and every
\* attempt that follows a failed one is sent complexity = max(10, c - 20)
\* and targetPolyCount = max(100, p / 2) of the failed attempt's c and p.
C20_DegradationBetweenAttempts ==
  \A c \in Calls :
    Len(sent[c]) >= 1 =>
      /\ sent[c][1] =
           BlenderMCPRequest(analyzePromptAndGenerateSpec(
             request[c].prompt, request[c].quality, request[c].style))
      /\ \A i \in 2..Len(sent[c]) : DegradedFrom(sent[c][i], sent[c][i - 1])

\* Three attempts, the last with the complexity held at its floor.
C20_Witness ==
  \E c \in Calls :
    /\ Len(sent[c]) = 3
    /\ sent[c][1].complexity = 40
    /\ sent[c][2].complexity = 20
    /\ sent[c][3].complexity = 10
    /\ sent[c][1].targetPolyCount = 1000
    /\ sent[c][3].targetPolyCount = 250

(***************************************************************************)
(* src/workers/agents/modelGeneration.ts: the planner and the catch block  *)
(* of the retry loop on their own, for prompts of many lengths and every   *)
(* quality.  fIn is the validated request, fOut the specifications of the  *)
(* attempts made so far.                                                   *)
(***************************************************************************)
\* n words "w" separated by the code unit sep.
JoinWords(n, sep) == [i \in 1..(2 * n - 1) |-> IF i % 2 = 1 THEN "w" ELSE sep]

\* Number of prompt code units past which the planner truncates.
TruncatedPromptChars == 501

PlanPrompts ==
  { <<"a"," ","s","i","m","p","l","e"," ","b","o","x">>,
    <<"d","e","t","a","i","l","e","d"," ">> \o JoinWords(59, " "),
    <<"D","E","T","A","I","L","E","D"," ","s","i","m","p","l","e"," ">>
      \o JoinWords(8, " "),
    JoinWords(9, " "),
    JoinWords(10, " "),
    JoinWords(50, " "),
    JoinWords(51, " "),
    JoinWords(8, " ") \o <<" "," ","w">>,
    JoinWords(12, "\t"),
    JoinWords(60, "\n"),
    Repeat("w", TruncatedPromptChars - 1),
    Repeat("w", TruncatedPromptChars) }

PlanInputs == [prompt : PlanPrompts, quality : Qualities, style : Styles]

\* Line 58: the planner runs on the validated request.
PlanSpecification ==
  /\ fOut = << >>
  /\ fOut' = <<analyzePromptAndGenerateSpec(fIn.prompt, fIn.quality, fIn.style)>>
  /\ UNCHANGED fIn

\* Lines 75-87: an attempt fails with retries left; the specification is
\* simplified for the next attempt.
RetrySimplifies ==
  /\ Len(fOut) >= 1
  /\ ~RetriesExhausted(Len(fOut))
  /\ fOut' = Append(fOut, SimplifySpec(fOut[Len(fOut)]))
  /\ UNCHANGED fIn

PlanInit ==
  /\ PipelineInit
  /\ SeqIdle
  /\ HandlerIdle
  /\ fIn \in PlanInputs
  /\ fOut = << >>

PlanNext ==
  \/ PlanSpecification /\ UNCHANGED <<pipelineVars, seqVars, handlerVars>>
  \/ RetrySimplifies /\ UNCHANGED <<pipelineVars, seqVars, handlerVars>>

\* The planner and the degradation of the retry loop on every input of
\* PlanInputs.
SpecPlan == PlanInit /\ [][PlanNext]_vars

\* C21: in every attempt of a call the specification's complexity is an
\* integer in [10, 100] and its targetPolyCount a positive integer (every
\* halving is applied to an even count, or yields the floor of 100), and
\* from one attempt to the next neither value increases.
C21_SpecificationBounds ==
  \A i \in 1..Len(fOut) :
    /\ fOut[i].complexity \in 10..100
    /\ fOut[i].targetPolyCount \in Nat \ {0}
    /\ i > 1 =>
         /\ fOut[i].complexity <= fOut[i - 1].complexity
         /\ fOut[i].targetPolyCount <= fOut[i - 1].targetPolyCount
         /\ \/ 2 * fOut[i].targetPolyCount = fOut[i - 1].targetPolyCount
            \/ /\ fOut[i].targetPolyCount = 100
               /\ fOut[i - 1].targetPolyCount < 200

\* A call of medium quality whose complexity reaches the floor on the third
\* attempt.
C21_Witness ==
  /\ Len(fOut) = 3
  /\ fIn.quality = "medium"
  /\ fOut[1].complexity = 20
  /\ fOut[3].complexity = 10
  /\ fOut[1].targetPolyCount = 5000
  /\ fOut[3].targetPolyCount = 1250

\* C22: every request one call sends to the backend carries the prompt,
\* quality, style and timeout of the planner's output; the attempts differ
\* in complexity and targetPolyCount only.
C22_RetryChangesOnlyComplexityAndPolyCount ==
  \A c \in Calls :
    \A i \in 1..Len(sent[c]) :
      LET planned == analyzePromptAndGenerateSpec(
                       request[c].prompt, request[c].quality, request[c].style)
      IN  /\ sent[c][i].prompt = planned.prompt
          /\ sent[c][i].quality = planned.quality
          /\ sent[c][i].style = planned.style
          /\ sent[c][i].timeout = planned.timeout
          /\ DOMAIN sent[c][i] =
               {"prompt", "quality", "style", "complexity", "targetPolyCount",
                "timeout"}

\* Three attempts of one call that differ in complexity and targetPolyCount
\* and agree in the timeout.
C22_Witness ==
  \E c \in Calls :
    /\ Len(sent[c]) = 3
    /\ sent[c][3].complexity # sent[c][1].complexity
    /\ sent[c][3].targetPolyCount # sent[c][1].targetPolyCount
    /\ sent[c][3].timeout = 30000
    /\ sent[c][1].timeout = 30000

\* A backend call of invocation c has returned a response: the retry loop
\* was left by its break.
LoopLeftBySuccess(c) ==
  /\ pc[c] \in {"store", "done"}
  /\ Len(sent[c]) >= 1
  /\ ~GenerationExhausted(outcome[c])

\* C23: once a backend call has succeeded, the calls made are the failed
\* ones and that one (k = failures + 1, at most 3), the count stays so until
\* the invocation ends, and the data of the artifact assembled is the
\* Base64 text of the modelData of that call's response.
C23_StopsAtFirstSuccess ==
  \A c \in Calls :
    LoopLeftBySuccess(c) =>
      /\ Len(sent[c]) = retryCount[c] + 1
      /\ Len(sent[c]) \in 1..(maxRetries + 1)
      /\ converted[c] =>
           /\ blenderResponse[c].t # "null"
           /\ responseData[c].modelData.data =
                arrayBufferToBase64(blenderResponse[c].v.modelData)

\* The third attempt is the first to succeed and its artifact was returned.
C23_Witness ==
  \E c \in Calls :
    /\ pc[c] = "done"
    /\ outcome[c].kind = "returned"
    /\ outcome[c].via = "miss"
    /\ retryCount[c] = 2
    /\ Len(sent[c]) = 3
    /\ blenderResponse[c] = ObjectValue(ResponseGltf)
    /\ outcome[c].value.modelData.data =
         arrayBufferToBase64(ResponseGltf.modelData)

\* C24 as stated: an entry that stays in the store keeps its value; a step
\* either leaves a present entry as it is or removes it.
C24_CachedArtifactImmutable ==
  [][\A key \in DOMAIN kv :
       key \in DOMAIN kv' => kv'[key] = kv[key]]_vars

\* The entries of a suggestion list that have the given type and parameters.
EntriesWith(s, type, duration, easing, intensity) ==
  {i \in 1..Len(s) :
     /\ s[i].type = type /\ s[i].duration = duration
     /\ s[i].easing = easing /\ s[i].intensity = intensity}

\* The prompt of the input contains one of the words, in any letter case.
Hinted(in, words) ==
  \E w \in words : \E i \in 1..Len(in.prompt) :
    /\ i + Len(w) - 1 <= Len(in.prompt)
    /\ toLowerCase(SubSeq(in.prompt, i, i + Len(w) - 1)) = w

\* C25: the rotation entry (axis y, 8000 ms, linear, intensity 1) is
\* suggested once if the prompt has a rotation hint or polyCount > 3000 and
\* not otherwise; the translation entry (axis z, 6000 ms, ease-in-out,
\* intensity 0.5) once if the prompt has a movement hint and not otherwise;
\* the scale entry (no axis, 4000 ms, ease-out, intensity 0.2) once if the
\* prompt has a scale hint or polyCount < 2000 and not otherwise; and there
\* is no other entry except the single default rotation of an input on which
\* no rule fires.
C25_FixedAnimationRules ==
  fOut # << >> =>
    LET s == fOut[1]
        rot == EntriesWith(s, "rotation", 8000, "linear", 10)
        tra == EntriesWith(s, "translation", 6000, "ease-in-out", 5)
        sca == EntriesWith(s, "scale", 4000, "ease-out", 2)
        rotRule == \/ Hinted(fIn, {<<"s","p","i","n">>, <<"r","o","t","a","t","e">>,
                                   <<"t","u","r","n">>,
                                   <<"c","i","r","c","u","l","a","r">>})
                   \/ fIn.polyCount > 3000
        traRule == Hinted(fIn, {<<"f","l","y">>, <<"f","l","o","a","t">>,
                                <<"m","o","v","e">>, <<"d","r","i","f","t">>})
        scaRule == \/ Hinted(fIn, {<<"g","r","o","w">>, <<"s","h","r","i","n","k">>,
                                   <<"e","x","p","a","n","d">>,
                                   <<"p","u","l","s","e">>})
                   \/ fIn.polyCount < 2000
    IN  /\ Cardinality(rot) = IF rotRule THEN 1 ELSE 0
        /\ Cardinality(tra) = IF traRule THEN 1 ELSE 0
        /\ Cardinality(sca) = IF scaRule THEN 1 ELSE 0
        /\ \A i \in rot \cup tra : s[i].axis = IF i \in rot THEN "y" ELSE "z"
        /\ \A i \in sca : "axis" \notin DOMAIN s[i]
        /\ \A i \in (1..Len(s)) \ (rot \cup tra \cup sca) :
             /\ s = <<DefaultRotation>>
             /\ ~rotRule /\ ~traRule /\ ~scaRule
        /\ (fIn.polyCount = 500 /\ fIn.prompt = <<"S","P","I","N">>) =>
             Cardinality(rot) = 1
        /\ (fIn.polyCount = 500 /\ ~rotRule /\ ~traRule) => s = <<ScalePulse>>

\* No hint and 500 polygons: the scale entry alone.
C25_Witness ==
  /\ fOut # << >>
  /\ fIn.polyCount = 500
  /\ fIn.prompt = <<"a"," ","p","l","a","i","n"," ","b","o","x">>
  /\ fOut[1] = <<ScalePulse>>

\* The wordCount of the planner (line 152): the pieces of the prompt between
\* space code units.
PlannerWordCount(prompt) == Len(SelectSeq(prompt, LAMBDA ch : ch = " ")) + 1

\* The reference plan of a request.
ReferenceComplexity(in) ==
  LET detail == Hinted(in, {<<"d","e","t","a","i","l","e","d">>,
                            <<"c","o","m","p","l","e","x">>,
                            <<"i","n","t","r","i","c","a","t","e">>,
                            <<"e","l","a","b","o","r","a","t","e">>,
                            <<"r","e","f","i","n","e","d">>})
      simple == Hinted(in, {<<"s","i","m","p","l","e">>, <<"b","a","s","i","c">>,
                            <<"m","i","n","i","m","a","l">>, <<"c","l","e","a","n">>,
                            <<"s","m","o","o","t","h">>})
      wordCount == PlannerWordCount(in.prompt)
      raw == 50 + (IF detail THEN 20 ELSE 0) - (IF simple THEN 20 ELSE 0)
                + (IF wordCount > 50 THEN 10 ELSE 0)
                - (IF wordCount < 10 THEN 10 ELSE 0)
  IN  IF raw < 10 THEN 10 ELSE IF raw > 100 THEN 100 ELSE raw

ReferenceLimits(quality) ==
  CASE quality = "low"    -> <<1000, 15000>>
    [] quality = "medium" -> <<5000, 25000>>
    [] quality = "high"   -> <<10000, 30000>>

\* C26: the planner's output is the reference plan: complexity 50, +20 for a
\* detail keyword, -20 for a simplicity keyword, +10 for wordCount > 50, -10
\* for wordCount < 10, clamped to [10, 100] (wordCount being the planner's
\* count of line 152); (targetPolyCount, timeout) from the quality table;
\* the prompt stored is the first 500 code units of the request prompt; the
\* quality and style are those of the request.
C26_PlannerMatchesReference ==
  fOut # << >> =>
    /\ fOut[1].complexity = ReferenceComplexity(fIn)
    /\ <<fOut[1].targetPolyCount, fOut[1].timeout>> = ReferenceLimits(fIn.quality)
    /\ Len(fOut[1].prompt) = (IF Len(fIn.prompt) > 500 THEN 500 ELSE Len(fIn.prompt))
    /\ \A i \in 1..Len(fOut[1].prompt) : fOut[1].prompt[i] = fIn.prompt[i]
    /\ fOut[1].quality = fIn.quality
    /\ fOut[1].style = fIn.style
    /\ (fIn.prompt = <<"a"," ","s","i","m","p","l","e"," ","b","o","x">>) =>
         fOut[1].complexity = 20
    /\ (fIn.prompt = <<"d","e","t","a","i","l","e","d"," ">> \o JoinWords(59, " ")) =>
         fOut[1].complexity = 80

\* A prompt longer than 500 code units has been planned and cut to 500.
C26_Witness ==
  /\ fOut # << >>
  /\ Len(fIn.prompt) > 500
  /\ Len(fOut[1].prompt) = 500
  /\ fIn.quality = "high"
  /\ fOut[1].targetPolyCount = 10000
  /\ fOut[1].complexity = 40

\* The whitespace-delimited words of a prompt: the maximal runs of code
\* units that are not white space.
WhitespaceDelimitedWords(prompt) ==
  Cardinality({i \in 1..Len(prompt) :
                 /\ prompt[i] \notin WhiteSpace
                 /\ (i = 1 \/ prompt[i - 1] \in WhiteSpace)})

\* Lines 156-160: the complexity before the word-count adjustments.  With
\* the adjustments it lies in 20..80, so the clamp of line 167 never binds.
KeywordBase(in) ==
  50 + (IF TestAny(toLowerCase(in.prompt), DetailKeywords) THEN 20 ELSE 0)
     - (IF TestAny(toLowerCase(in.prompt), SimpleKeywords) THEN 20 ELSE 0)

\* C27 as stated: the +10 adjustment is applied exactly to the prompts of
\* more than 50 whitespace-delimited words and the -10 adjustment exactly to
\* those of fewer than 10, however the words are separated.
C27_WordCountIsWhitespaceDelimited ==
  fOut # << >> =>
    LET words == WhitespaceDelimitedWords(fIn.prompt)
    IN  fOut[1].complexity =
          KeywordBase(fIn) + (IF words > 50 THEN 10 ELSE 0)
                           - (IF words < 10 THEN 10 ELSE 0)

\* C28 as stated: when the three attempts of a call have failed, the call
\* has made no put and the store holds no entry for the request, so that a
\* later call with the same request misses.
C28_FailedGenerationThenMiss ==
  (pc[1] = "done" /\ GenerationExhausted(outcome[1])) =>
    /\ cachePuts[1] = 0
    /\ ModelKey(promptHash[1]) \notin DOMAIN kv

\* C28: a call whose three attempts have failed has made no put, and the
\* store holds an entry for its request only if one was there before and the
\* call's lookup faulted; the store changes only by the put of a call that
\* has assembled an artifact and by the removal of an entry, which is no
\* step of a call.
C28_FailedGenerationLeavesStore ==
  /\ [](pc[1] = "done" /\ GenerationExhausted(outcome[1]) =>
          /\ cachePuts[1] = 0
          /\ ~converted[1]
          /\ Len(sent[1]) = maxRetries + 1
          /\ ModelKey(promptHash[1]) \in DOMAIN kv => getFault[1])
  /\ [][kv' # kv =>
          \/ pc[1] = "store" /\ pc'[1] = "done" /\ cachePuts'[1] = cachePuts[1] + 1
          \/ /\ <<pc, sent, retryCount, cachePuts, outcome>>' =
                  <<pc, sent, retryCount, cachePuts, outcome>>
             /\ DOMAIN kv' \subseteq DOMAIN kv
             /\ \A key \in DOMAIN kv' : kv'[key] = kv[key]]_vars

\* Three attempts have failed while the store holds the artifact of an
\* earlier call.
C28_Witness ==
  /\ pc[1] = "done"
  /\ GenerationExhausted(outcome[1])
  /\ Len(sent[1]) = 3
  /\ cachePuts[1] = 0
  /\ kv # << >>

(***************************************************************************)
(* The fingerprint function on the requests that pass validation: a        *)
(* prompt the schema accepts and sanitizePrompt leaves as it is, a quality *)
(* and a style of the enums.                                               *)
(***************************************************************************)
ValidatedPrompts ==
  {p \in SeqsUpTo(HashPromptAlphabet \cup {"a"}, MaxFieldChars) :
     /\ PromptChecksPass(JsString(p))
     /\ sanitizePrompt(p) = p}

ValidatedTriples ==
  [prompt : ValidatedPrompts,
   quality : {Chars(q) : q \in Qualities},
   style : {Chars(s) : s \in Styles}]

HashValidatedInit ==
  /\ PipelineInit
  /\ SeqIdle
  /\ HandlerIdle
  /\ fIn \in ValidatedTriples \X ValidatedTriples
  /\ fOut = << >>

\* generateModelHash on every pair of validated requests.
SpecHashValidated == HashValidatedInit /\ [][HashNext]_vars

\* C29 as stated: for two validated requests that differ, the strings
\* prompt:quality:style differ, and so do the fingerprints (the digest being
\* collision-free).
C29_ValidatedFingerprintInjective ==
  (fOut # << >> /\ fIn[1] # fIn[2]) =>
    /\ HashInput(fIn[1].prompt, fIn[1].quality, fIn[1].style) #
         HashInput(fIn[2].prompt, fIn[2].quality, fIn[2].style)
    /\ fOut[1] # fOut[2]

\* C30: every artifact assembled on a miss path was suggested animations
\* for a polyCount of 5000: its first suggestion is the 'Primary Rotation'
\* entry, it has no 'Default Rotation' entry, and it has a scale entry only
\* if the prompt has a scale hint, whatever the backend answered.
C30_PipelineAnimations ==
  converted[1] =>
    LET s == responseData[1].animations.suggestions
    IN  /\ responseData[1].metadata.polyCount = 5000
        /\ Len(s) >= 1
        /\ s[1].name = "Primary Rotation"
        /\ \A i \in 1..Len(s) : s[i].name # "Default Rotation"
        /\ (\E i \in 1..Len(s) : s[i].type = "scale") =>
             Hinted(request[1], {<<"g","r","o","w">>, <<"s","h","r","i","n","k">>,
                                 <<"e","x","p","a","n","d">>,
                                 <<"p","u","l","s","e">>})
        /\ outcome[1].kind = "returned" => outcome[1].value = responseData[1]

\* The artifact of a prompt with a scale hint has been returned on a miss
\* path, with the primary rotation followed by the scale entry, for a
\* backend response that reported 1200 polygons.
C30_Witness ==
  /\ pc[1] = "done"
  /\ outcome[1].kind = "returned"
  /\ outcome[1].via = "miss"
  /\ request[1].prompt = <<"g","r","o","w">>
  /\ blenderResponse[1].v.metadata.polyCount = 1200
  /\ outcome[1].value.animations.suggestions = <<PrimaryRotation, ScalePulse>>

=============================================================================
